---- MODULE Spec2Model ----
(***************************************************************************)
(* A model of yang2tosca, the pyang plug-in that translates a YANG module  *)
(* into TOSCA data types (src/yang2tosca/tosca.py, config/config.py).      *)
(*                                                                         *)
(* Conventions of the model                                                *)
(*  - A string is a sequence of tokens.  The separators the code looks     *)
(*    for (":" in type names, "/" in augment paths, "|" and ".." in range  *)
(*    and length arguments, single characters in enum values) are tokens   *)
(*    of their own, so split(), findall() and int()/float() are computed   *)
(*    on the tokens and never assumed.                                     *)
(*  - A statement is a record [keyword, arg, substmts, ref]; ref holds the *)
(*    cross reference pyang resolved for it (i_grouping of a uses,         *)
(*    i_target_node of an augment) as a sequence of zero or one statement: *)
(*    <<>> is Python's None.                                               *)
(*  - What the code writes is a sequence of lines.  A line is a record     *)
(*    [ch, ind, k, v]: ch is the stream ("fd" for the output file, "log"   *)
(*    for print(), "exc" for an exception that escapes), ind the number of *)
(*    two-space indentation units, k the format string of the write, v the *)
(*    text interpolated into it.                                           *)
(*  - ctx.opts.camel_case is off, and no statement other than a module,    *)
(*    an import or a belongs-to has a prefix child, so ctx.local_prefix is *)
(*    assigned by the module's own metadata only.                          *)
(***************************************************************************)
EXTENDS Integers, Sequences, FiniteSets, TLC

VARIABLES
    cfg_file,      \* the state of the type-mapping configuration file
    modules,       \* the modules handed to ToscaPlugin.emit
    pc,            \* position of the run: setup, emit, done, raised
    idx,           \* index of the next module of the for loop of emit
    type_map,      \* ctx.type_map
    local_prefix,  \* ctx.local_prefix: <<>> while the attribute is not set
    fd,            \* everything written so far (file, stdout, exception)
    stmt           \* the statement handed to the operation under check

vars == <<cfg_file, modules, pc, idx, type_map, local_prefix, fd, stmt>>

-----------------------------------------------------------------------------
(* Statements                                                              *)

Stmt(kw, arg, subs) == [keyword |-> kw, arg |-> arg, substmts |-> subs, ref |-> <<>>]

RefStmt(kw, arg, subs, ref) == [keyword |-> kw, arg |-> arg, substmts |-> subs, ref |-> ref]

search(s, kw) == SelectSeq(s.substmts, LAMBDA c : c.keyword = kw)

has_one(s, kw) == search(s, kw) # <<>>

search_one(s, kw) == Head(search(s, kw))

-----------------------------------------------------------------------------
(* Lines                                                                   *)

W(ind, k, v) == <<[ch |-> "fd", ind |-> ind, k |-> k, v |-> v]>>

Log(k, v) == <<[ch |-> "log", ind |-> 0, k |-> k, v |-> v]>>

Raise(kind) == <<[ch |-> "exc", ind |-> 0, k |-> kind, v |-> <<>>]>>

Raised(out) == out # <<>> /\ out[Len(out)].ch = "exc"

\* Sequential composition: what follows a raise is never executed.
Then(a, b) == IF Raised(a) THEN a ELSE a \o b

RECURSIVE ThenAllFrom(_, _)
ThenAllFrom(outs, i) ==
    IF i > Len(outs) THEN <<>> ELSE Then(outs[i], ThenAllFrom(outs, i + 1))

\* A for loop whose i-th iteration writes outs[i].
ThenAll(outs) == ThenAllFrom(outs, 1)

When(cond, out) == IF cond THEN out ELSE <<>>

-----------------------------------------------------------------------------
(* check_substmts: one warning per child whose keyword is not handled      *)

PathStr(s) == IF s.keyword \in {"module", "submodule"} THEN <<"/">> ELSE s.arg

check_substmts(s, handled) ==
    ThenAll([i \in 1..Len(s.substmts) |->
        When(s.substmts[i].keyword \notin handled,
             Log("not handled", PathStr(s) \o <<s.substmts[i].keyword>> \o s.substmts[i].arg))])

-----------------------------------------------------------------------------
(* Text Formatter                                                          *)

WrapWidth == 70

IndexOf(str, tok) ==
    IF \E i \in 1..Len(str) : str[i] = tok
    THEN CHOOSE i \in 1..Len(str) : str[i] = tok /\ \A j \in 1..(i - 1) : str[j] # tok
    ELSE 0

Contains(str, tok) == IndexOf(str, tok) # 0

\* str.splitlines(): "\n" ends a line; a trailing "\n" opens no further line.
RECURSIVE splitlines(_)
splitlines(text) ==
    IF text = <<>> THEN <<>>
    ELSE LET n == IndexOf(text, "\n")
         IN IF n = 0 THEN <<text>>
            ELSE <<SubSeq(text, 1, n - 1)>> \o splitlines(SubSeq(text, n + 1, Len(text)))

RECURSIVE LineLen(_)
LineLen(line) ==
    IF line = <<>> THEN 0
    ELSE Len(Head(line)) + (IF Len(line) > 1 THEN 1 ELSE 0) + LineLen(Tail(line))

\* textwrap.wrap(text): words are put on a line while the line stays within
\* 70 characters; white space between words is collapsed.
RECURSIVE WrapWords(_, _)
WrapWords(words, cur) ==
    IF words = <<>> THEN (IF cur = <<>> THEN <<>> ELSE <<cur>>)
    ELSE IF cur = <<>> \/ LineLen(cur) + 1 + Len(Head(words)) <= WrapWidth
         THEN WrapWords(Tail(words), Append(cur, Head(words)))
         ELSE <<cur>> \o WrapWords(words, <<>>)

wrap_text(text) ==
    LET lines == splitlines(text)
    IN IF Len(lines) > 1 THEN lines
       ELSE WrapWords(SelectSeq(text, LAMBDA w : w \notin {"\n", " "}), <<>>)

\* line.lstrip()
RECURSIVE lstrip(_)
lstrip(line) == IF line # <<>> /\ Head(line) = " " THEN lstrip(Tail(line)) ELSE line

\* A variant that looks at the first line only
emit_text_string_first_line(key, lines0, ind) ==
    LET lines == IF lines0 = <<>> THEN << <<>> >> ELSE lines0
    IN IF Contains(lines[1], ":") \/ Contains(lines[1], "'")
       THEN W(ind, key \o " >-", <<>>)
            \o [i \in 1..Len(lines) |-> [ch |-> "fd", ind |-> ind + 1, k |-> "text", v |-> lstrip(lines[i])]]
       ELSE W(ind, key, lines[1])

\* The key has been written by the caller ("%skey: "); the text follows it.
emit_text_string(key, lines0, ind) ==
    LET lines == IF lines0 = <<>> THEN << <<>> >> ELSE lines0
    IN IF Len(lines) > 1 \/ Contains(lines[1], ":") \/ Contains(lines[1], "'")
       THEN W(ind, key \o " >-", <<>>)
            \o [i \in 1..Len(lines) |-> [ch |-> "fd", ind |-> ind + 1, k |-> "text", v |-> lstrip(lines[i])]]
       ELSE W(ind, key, lines[1])

emit_description(s, ind) ==
    Then(emit_text_string("description:", wrap_text(s.arg), ind), check_substmts(s, {}))

emit_reference(s, ind) ==
    Then(emit_text_string("reference:", wrap_text(s.arg), ind), check_substmts(s, {}))

-----------------------------------------------------------------------------
(* Metadata Emitter                                                        *)

emit_yang_version(s, ind) == Then(W(ind, "yang-version:", s.arg), check_substmts(s, {}))

emit_organization(s, ind) ==
    Then(emit_text_string("organization:", wrap_text(s.arg), ind), check_substmts(s, {}))

emit_contact(s, ind) ==
    Then(emit_text_string("contact:", wrap_text(s.arg), ind), check_substmts(s, {}))

emit_namespace(s, ind) == W(ind, "namespace:", s.arg)

\* Also assigns ctx.local_prefix: see local_prefix_after.
emit_prefix(s, ind) ==
    W(ind, "# TOSCA does not support prefix for local namespaces", <<>>)
    \o W(ind, "prefix:", s.arg)

emit_belongs_to(s, ind) == W(ind, "belongs-to:", s.arg)

emit_revision(s, ind) ==
    Then(check_substmts(s, {"description", "reference"}),
         When(has_one(s, "description") \/ has_one(s, "reference"),
              Then(W(ind, "'name':", s.arg),
              Then(When(has_one(s, "description"), emit_description(search_one(s, "description"), ind + 1)),
                   When(has_one(s, "reference"), emit_reference(search_one(s, "reference"), ind + 1))))))

emit_revisions(revisions, ind) ==
    Then(W(ind, "revisions:", <<>>),
         ThenAll([i \in 1..Len(revisions) |-> emit_revision(revisions[i], ind + 1)]))

\* The definition of emit_status at the end of the file replaces the one that
\* writes "status: ..." to fd: the name is bound to the later def.
emit_status(s, ind) == Log("status", <<>>)

emit_feature(s, ind) ==
    Then(check_substmts(s, {"description", "reference", "status"}),
         When(has_one(s, "description") \/ has_one(s, "reference") \/ has_one(s, "status"),
              Then(W(ind, "'name':", s.arg),
              Then(When(has_one(s, "description"), emit_description(search_one(s, "description"), ind + 1)),
              Then(When(has_one(s, "reference"), emit_reference(search_one(s, "reference"), ind + 1)),
                   When(has_one(s, "status"), emit_status(search_one(s, "status"), ind + 1)))))))

emit_features(features, ind) ==
    Then(W(ind, "features:", <<>>),
         ThenAll([i \in 1..Len(features) |-> emit_feature(features[i], ind + 1)]))

emit_metadata(s, ind) ==
    When(has_one(s, "yang-version") \/ has_one(s, "organization") \/ has_one(s, "contact")
           \/ has_one(s, "reference") \/ has_one(s, "revision") \/ has_one(s, "feature")
           \/ has_one(s, "namespace") \/ has_one(s, "prefix"),
         Then(W(ind, "metadata:", <<>>),
         Then(When(has_one(s, "yang-version"), emit_yang_version(search_one(s, "yang-version"), ind + 1)),
         Then(When(has_one(s, "organization"), emit_organization(search_one(s, "organization"), ind + 1)),
         Then(When(has_one(s, "contact"), emit_contact(search_one(s, "contact"), ind + 1)),
         Then(When(has_one(s, "namespace"), emit_namespace(search_one(s, "namespace"), ind + 1)),
         Then(When(has_one(s, "prefix"), emit_prefix(search_one(s, "prefix"), ind + 1)),
         Then(When(has_one(s, "belongs-to"), emit_belongs_to(search_one(s, "belongs-to"), ind + 1)),
         Then(When(has_one(s, "revision"), emit_revisions(search(s, "revision"), ind + 1)),
         Then(When(has_one(s, "reference"), emit_reference(search_one(s, "reference"), ind + 1)),
              When(has_one(s, "feature"), emit_features(search(s, "feature"), ind + 1))))))))))))

\* A variant that keeps the first prefix stored in the context
local_prefix_kept(lp, s) ==
    IF lp = <<>> /\ has_one(s, "prefix") THEN <<search_one(s, "prefix").arg>> ELSE lp

\* ctx.local_prefix after emit_metadata(ctx, s, ...): emit_prefix stores the
\* argument of the prefix child, if there is one.
local_prefix_after(lp, s) ==
    IF has_one(s, "prefix") THEN <<search_one(s, "prefix").arg>> ELSE lp

-----------------------------------------------------------------------------
(* Import/Include Resolver                                                 *)

IETF_NAMESPACE == <<"org.ietf", ":", "1.0">>

IETF_NAMESPACE_PREFIX == <<"inet">>

\* ctx.get_module(name): the module of that name in the registry, or None.
get_module(registry, name) == SelectSeq(registry, LAMBDA m : m.arg = name)

emit_import_or_include(ctx, s, ind) ==
    LET imported == get_module(ctx.registry, s.arg)
        file == s.arg \o <<".yaml">>
        ns == IF imported # <<>> /\ has_one(Head(imported), "namespace")
              THEN <<search_one(Head(imported), "namespace").arg>> ELSE <<>>
    IN Then(IF has_one(s, "prefix") \/ ns # <<>>
            THEN Then(W(ind, "- file:", file),
                 Then(IF has_one(s, "prefix")
                      THEN W(ind + 1, "namespace_prefix:", search_one(s, "prefix").arg)
                      ELSE Raise("AttributeError"),
                      When(ns # <<>>, W(ind + 1, "# namespace:", Head(ns)))))
            ELSE W(ind, "- ", file),
            check_substmts(s, {"prefix"}))

emit_imports_and_includes(ctx, s, ind) ==
    LET imports == search(s, "import")
        includes == search(s, "include")
    IN Then(W(0, "imports:", <<>>),
       Then(W(ind + 1, "- file:", IETF_NAMESPACE),
       Then(W(ind + 2, "namespace_prefix:", IETF_NAMESPACE_PREFIX),
       Then(ThenAll([i \in 1..Len(imports) |-> emit_import_or_include(ctx, imports[i], ind + 1)]),
            ThenAll([i \in 1..Len(includes) |-> emit_import_or_include(ctx, includes[i], ind + 1)])))))

-----------------------------------------------------------------------------
(* Escaping rule.  The argument of must_escape is a string whose tokens    *)
(* are single characters.                                                  *)

Digits == {"0", "1", "2", "3", "4", "5", "6", "7", "8", "9"}

Blanks == {" ", "\t", "\n"}

\* The positions after one character of cs read at a position of P.
Ch(str, P, cs) == {p + 1 : p \in {q \in P : q <= Len(str) /\ str[q] \in cs}}

\* The positions after zero or more characters of cs read at a position of P.
Star(str, P, cs) ==
    {q \in 1..(Len(str) + 1) : \E p \in P : p <= q /\ \A r \in p..(q - 1) : str[r] \in cs}

\* One or two characters of cs.
OneOrTwo(str, P, cs) == Ch(str, P, cs) \cup Ch(str, Ch(str, P, cs), cs)

\* Python's digit part: digits, single underscores allowed between digits.
DigitPart(str, P) ==
    {q \in 2..(Len(str) + 1) : \E p \in P :
        /\ p < q
        /\ \A r \in p..(q - 1) : str[r] \in Digits \cup {"_"}
        /\ str[p] \in Digits /\ str[q - 1] \in Digits
        /\ \A r \in p..(q - 2) : ~(str[r] = "_" /\ str[r + 1] = "_")}

RECURSIVE rstrip(_)
rstrip(str) ==
    IF str # <<>> /\ str[Len(str)] \in Blanks THEN rstrip(SubSeq(str, 1, Len(str) - 1)) ELSE str

RECURSIVE lstrip_blanks(_)
lstrip_blanks(str) ==
    IF str # <<>> /\ Head(str) \in Blanks THEN lstrip_blanks(Tail(str)) ELSE str

strip(str) == lstrip_blanks(rstrip(str))

Unsigned(str) == IF str # <<>> /\ Head(str) \in {"+", "-"} THEN Tail(str) ELSE str

\* int(s) does not raise ValueError
int_ok(s) ==
    LET t == Unsigned(strip(s)) IN (Len(t) + 1) \in DigitPart(t, {1})

Lower(c) ==
    CASE c = "I" -> "i" [] c = "N" -> "n" [] c = "F" -> "f" [] c = "T" -> "t"
      [] c = "Y" -> "y" [] c = "A" -> "a" [] OTHER -> c

\* float(s) does not raise ValueError
float_ok(s) ==
    LET t == Unsigned(strip(s))
        low == [i \in 1..Len(t) |-> Lower(t[i])]
        int_part == DigitPart(t, {1})
        dot == Ch(t, int_part, {"."})
        mantissa == int_part \cup dot \cup DigitPart(t, dot) \cup DigitPart(t, Ch(t, {1}, {"."}))
        e == Ch(t, mantissa, {"e", "E"})
        exponent == DigitPart(t, e \cup Ch(t, e, {"+", "-"}))
    IN \/ (Len(t) + 1) \in (mantissa \cup exponent)
       \/ low \in {<<"i", "n", "f">>, <<"n", "a", "n">>,
                   <<"i", "n", "f", "i", "n", "i", "t", "y">>}

\* timestamp_regexp.match(s)
timestamp_match(s) ==
    LET year == Ch(s, Ch(s, Ch(s, Ch(s, {1}, Digits), Digits), Digits), Digits)
        month == OneOrTwo(s, Ch(s, year, {"-"}), Digits)
        day == OneOrTwo(s, Ch(s, month, {"-"}), Digits)
        sep == Ch(s, day, {"T", "t"}) \cup Star(s, Ch(s, day, {" ", "\t"}), {" ", "\t"})
        hour == OneOrTwo(s, sep, Digits)
        minute == Ch(s, Ch(s, Ch(s, hour, {":"}), Digits), Digits)
        second == Ch(s, Ch(s, Ch(s, minute, {":"}), Digits), Digits)
        fraction == second \cup Star(s, Ch(s, second, {"."}), Digits)
        tz_at == Star(s, fraction, {" ", "\t"})
        tz_hour == OneOrTwo(s, Ch(s, tz_at, {"-", "+"}), Digits)
        tz == Ch(s, tz_at, {"Z"}) \cup tz_hour
                \cup Ch(s, Ch(s, Ch(s, tz_hour, {":"}), Digits), Digits)
        ends == day \cup fraction \cup tz
    IN \/ (Len(s) + 1) \in ends
       \/ Len(s) \in ends /\ s[Len(s)] = "\n"

\* must_escape with the two number tests only; the variant against which C8
\* is checked
must_escape_numbers_only(s) == int_ok(s) \/ float_ok(s)

must_escape(s) ==
    IF int_ok(s) THEN TRUE
    ELSE IF float_ok(s) THEN TRUE
    ELSE IF int_ok(s) THEN TRUE
    ELSE IF s = <<"t", "r", "u", "e">> \/ s = <<"f", "a", "l", "s", "e">> THEN TRUE
    ELSE IF s = <<"n", "u", "l", "l">> \/ s = <<"~">> THEN TRUE
    ELSE IF timestamp_match(s) THEN TRUE
    ELSE FALSE

-----------------------------------------------------------------------------
(* Constraint Translator.  The tokens of a length or range argument are    *)
(* numbers, the sentinels, "..", "|" and " ".                              *)

\* Tokens matched by (\+|\-)?[0-9]+(\.[0-9]+)? and by [0-9]+
SignedNumbers == {"-5", "+7", "1.5", "-0.5"}

UnsignedInts == {"0", "1", "5", "10", "20", "30", "64", "255"}

range_low(t) == t \in {"-INF", "min", "max"} \cup SignedNumbers \cup UnsignedInts

range_high(t) == t \in {"INF", "min", "max"} \cup SignedNumbers \cup UnsignedInts

length_bound(t) == t \in {"min", "max"} \cup UnsignedInts

\* \s* read at position i
RECURSIVE skip_blanks(_, _)
skip_blanks(str, i) ==
    IF i <= Len(str) /\ str[i] \in Blanks THEN skip_blanks(str, i + 1) ELSE i

is_low(kind, t) == IF kind = "range" THEN range_low(t) ELSE length_bound(t)

is_high(kind, t) == IF kind = "range" THEN range_high(t) ELSE length_bound(t)

\* re_range_part.findall (kind "range") / re_length_part.findall (kind
\* "length") from position i on: the (low, high) groups of each match,
\* high = "" when the optional part did not match.  Text that matches
\* nothing is skipped.
RECURSIVE findall(_, _, _)
findall(kind, str, i) ==
    IF i > Len(str) THEN <<>>
    ELSE IF ~is_low(kind, str[i]) THEN findall(kind, str, i + 1)
    ELSE LET j == skip_blanks(str, i + 1)
             k == skip_blanks(str, j + 1)
         IN IF j <= Len(str) /\ str[j] = ".." /\ k <= Len(str) /\ is_high(kind, str[k])
            THEN << <<str[i], str[k]>> >> \o findall(kind, str, skip_blanks(str, k + 1))
            ELSE << <<str[i], "">> >> \o findall(kind, str, j)

\* The loop over the clauses of emit_length; indent is the loop's own
\* variable and keeps what an earlier iteration assigned to it.
RECURSIVE emit_length_clauses(_, _, _)
emit_length_clauses(lengths, i, ind) ==
    IF i > Len(lengths) THEN <<>>
    ELSE LET low == lengths[i][1]
             high == lengths[i][2]
             both == high # "" /\ low # "min" /\ high # "max"
             ind2 == IF both THEN ind + 1 ELSE ind
         IN (IF high # ""
             THEN When(both, W(ind, "- and:", <<>>))
                  \o When(low # "min", W(ind2, "- min_length:", <<low>>))
                  \o When(high # "max", W(ind2, "- max_length:", <<high>>))
             ELSE When(low # "max", W(ind, "- max_length:", <<low>>)))
            \o emit_length_clauses(lengths, i + 1, ind2)

\* emit_length without the marker and the disjunction: the variant against
\* which C18 is checked
emit_length_unmarked(s, ind) ==
    emit_length_clauses(findall("length", s.arg, 1), 1, ind)

emit_length(s, ind) ==
    LET lengths == findall("length", s.arg, 1)
    IN Then(IF Len(lengths) > 1
            THEN W(ind, "# This is not (yet) valid TOSCA. FIX MANUALLY", <<>>)
                 \o W(ind, "- or:", <<>>)
                 \o emit_length_clauses(lengths, 1, ind + 1)
            ELSE IF lengths = <<>> THEN Raise("IndexError")
            ELSE LET low == lengths[1][1]
                     high == lengths[1][2]
                 IN IF high # ""
                    THEN When(low # "min", W(ind, "- min_length:", <<low>>))
                         \o When(high # "max", W(ind, "- max_length:", <<high>>))
                    ELSE When(low # "max", W(ind, "- max_length:", <<low>>)),
            check_substmts(s, {}))

emit_min_elements(s, ind) == W(ind, "- min_length:", s.arg)

emit_max_elements(s, ind) == W(ind, "- max_length:", s.arg)

\* emit_in_range without the disjunction: every clause written on its own at
\* the constraint's indentation; the variant against which C7 is checked
emit_in_range_flat(s, ind) ==
    LET ranges == findall("range", s.arg, 1)
    IN ThenAll([i \in 1..Len(ranges) |->
           IF ranges[i][2] # ""
           THEN W(ind, "- in_range:", <<ranges[i][1], ranges[i][2]>>)
           ELSE W(ind, "- valid_values:", <<ranges[i][1]>>)])

emit_in_range(s, ind) ==
    LET ranges == findall("range", s.arg, 1)
        num_ranges == Len(SelectSeq(ranges, LAMBDA r : r[2] # ""))
        num_valid_values == Len(SelectSeq(ranges, LAMBDA r : r[2] = ""))
        disjunction == (num_valid_values > 0 /\ num_ranges > 0) \/ num_ranges > 1
        ind2 == IF disjunction THEN ind + 1 ELSE ind
    IN When(disjunction,
            W(ind, "# This is not (yet) valid TOSCA. FIX MANUALLY", <<>>) \o W(ind, "- or:", <<>>))
       \o When(num_valid_values > 0,
               W(ind2, "- valid_values:", <<>>)
               \o ThenAll([i \in 1..Len(ranges) |->
                      When(ranges[i][2] = "", W(ind2 + 1, "- ", <<ranges[i][1]>>))]))
       \o When(num_ranges > 0,
               ThenAll([i \in 1..Len(ranges) |->
                   When(ranges[i][2] # "",
                        W(ind2, "- in_range:",
                          <<IF ranges[i][1] = "min" THEN "UNBOUNDED" ELSE ranges[i][1],
                            IF ranges[i][2] = "max" THEN "UNBOUNDED" ELSE ranges[i][2]>>))]))
       \o check_substmts(s, {})

emit_pattern(s, ind) == Then(W(ind, "- pattern:", s.arg), check_substmts(s, {}))

emit_patterns(patterns, ind) ==
    ThenAll([i \in 1..Len(patterns) |-> emit_pattern(patterns[i], ind)])

\* The comment lines that emit_enum, emit_bit and emit_case write for a description
comment_lines(s, ind) ==
    IF has_one(s, "description")
    THEN LET lines == wrap_text(search_one(s, "description").arg)
         IN [i \in 1..Len(lines) |-> [ch |-> "fd", ind |-> ind + 1, k |-> "# ", v |-> lines[i]]]
    ELSE <<>>

\* "'" + stmt.arg + "'" when the value must be escaped
quoted(arg) == IF must_escape(arg) THEN <<"'">> \o arg \o <<"'">> ELSE arg

emit_enum(s, ind) ==
    (IF has_one(s, "value")
     THEN W(ind, "- ", quoted(s.arg) \o <<"  # Value: ">> \o search_one(s, "value").arg)
     ELSE W(ind, "- ", quoted(s.arg)))
    \o comment_lines(s, ind)
    \o check_substmts(s, {"value", "description"})

emit_enums(enums, ind) ==
    W(ind, "- valid_values:", <<>>) \o ThenAll([i \in 1..Len(enums) |-> emit_enum(enums[i], ind + 1)])

emit_bit(s, ind) ==
    W(ind, "- ", quoted(s.arg))
    \o comment_lines(s, ind)
    \o check_substmts(s, {"description"})

emit_bits(bits, ind) ==
    W(ind, "- valid_values:", <<>>) \o ThenAll([i \in 1..Len(bits) |-> emit_bit(bits[i], ind + 1)])

emit_constraints(s, ind) ==
    When(has_one(s, "length") \/ has_one(s, "range") \/ has_one(s, "pattern")
           \/ has_one(s, "enum") \/ has_one(s, "min-elements") \/ has_one(s, "max-elements")
           \/ has_one(s, "bit"),
         Then(W(ind, "constraints:", <<>>),
         Then(When(has_one(s, "length"), emit_length(search_one(s, "length"), ind + 1)),
         Then(When(has_one(s, "range"), emit_in_range(search_one(s, "range"), ind + 1)),
         Then(When(has_one(s, "pattern"), emit_patterns(search(s, "pattern"), ind + 1)),
         Then(When(has_one(s, "enum"), emit_enums(search(s, "enum"), ind + 1)),
         Then(When(has_one(s, "bit"), emit_bits(search(s, "bit"), ind + 1)),
         Then(When(has_one(s, "min-elements"), emit_min_elements(search_one(s, "min-elements"), ind + 1)),
              When(has_one(s, "max-elements"), emit_max_elements(search_one(s, "max-elements"), ind + 1))))))))))

-----------------------------------------------------------------------------
(* Type Reference Resolver.  ctx is [type_map, local_prefix, registry]; a  *)
(* qualifier is a string, <<>> standing for None.                          *)

\* type_string.split(':', 1)
before_colon(str) == SubSeq(str, 1, IndexOf(str, ":") - 1)

after_colon(str) == SubSeq(str, IndexOf(str, ":") + 1, Len(str))

\* create_qualified_name that never strips the local prefix: the variant
\* against which C15 is checked
create_qualified_name_unstripped(ctx, type_string, qualifier) ==
    IF Contains(type_string, ":") THEN type_string
    ELSE IF qualifier # <<>> THEN qualifier \o <<":">> \o type_string ELSE type_string

create_qualified_name(ctx, type_string, qualifier) ==
    IF Contains(type_string, ":")
       /\ (ctx.local_prefix = <<>> \/ before_colon(type_string) # ctx.local_prefix[1])
    THEN type_string
    ELSE LET bare == IF Contains(type_string, ":") THEN after_colon(type_string) ELSE type_string
         IN IF qualifier # <<>> THEN qualifier \o <<":">> \o bare ELSE bare

\* ctx.type_map[s.arg], and on KeyError create_qualified_name
resolve_type(ctx, s, qualifier) ==
    IF s.arg \in DOMAIN ctx.type_map THEN ctx.type_map[s.arg]
    ELSE create_qualified_name(ctx, s.arg, qualifier)

emit_units(s, ind) == W(ind, "# TOSCA uses scalar unit types", <<>>) \o W(ind, "# units:", s.arg)

emit_path(s, ind) == W(ind, "# path:", s.arg)

emit_fraction_digits(s, ind) == W(ind, "# fraction-digits:", s.arg)

emit_presence(s, ind) == W(ind, "# presence:", s.arg)

emit_if_feature(s, ind) == W(ind, "# if-feature:", s.arg)

emit_key(s, ind) == W(ind, "# key:", s.arg)

emit_unique(s, ind) == W(ind, "# unique:", s.arg)

emit_ordered_by(s, ind) == W(ind, "# ordered-by:", s.arg)

emit_default(s, ind) == W(ind, "default:", s.arg)

emit_commented_default(s, ind) ==
    W(ind, "# TOSCA doesn't support 'default' here", <<>>) \o W(ind, "# default:", s.arg)

emit_when(s, ind) == W(ind, "# when:", s.arg)

emit_must(s, ind) ==
    W(ind, "# must:", <<>>) \o W(ind, "#   ", s.arg)
    \o When(has_one(s, "error-message"),
            W(ind, "#   error-message:", search_one(s, "error-message").arg))
    \o check_substmts(s, {"error-message"})

\* mandatory is the statement or None: a sequence of at most one statement
emit_mandatory(mandatory, ind) ==
    W(ind, "required:", IF mandatory # <<>> THEN Head(mandatory).arg ELSE <<"false">>)

RECURSIVE emit_type(_, _, _, _)
emit_type(ctx, s, ind, qualifier) ==
    LET tosca_type == resolve_type(ctx, s, qualifier)
        types == search(s, "type")
    IN Then(IF tosca_type = <<"union">>
            THEN Then(W(ind, "# The YANG type is a union. Select one of the following options:", <<>>),
                 Then(ThenAll([i \in 1..Len(types) |->
                          Then(W(ind, "# Option", <<ToString(i)>>), emit_type(ctx, types[i], ind, <<>>))]),
                      W(ind, "#", <<>>)))
            ELSE Then(W(ind, "type:", tosca_type),
                 Then(When(has_one(s, "path"), emit_path(search_one(s, "path"), ind)),
                 Then(When(has_one(s, "fraction-digits"),
                           emit_fraction_digits(search_one(s, "fraction-digits"), ind)),
                      emit_constraints(s, ind)))),
            check_substmts(s, {"bit", "enum", "fraction-digits", "length", "range", "pattern", "path", "type"}))

\* emit_derived_from without the type map and without create_qualified_name:
\* the variant against which C6 is checked
emit_derived_from_unmapped(ctx, s, ind) ==
    W(ind, "derived_from:", s.arg)

RECURSIVE emit_derived_from(_, _, _)
emit_derived_from(ctx, s, ind) ==
    LET tosca_type == resolve_type(ctx, s, <<>>)
        types == search(s, "type")
    IN Then(IF tosca_type = <<"union">>
            THEN Then(W(ind, "# The YANG type is a union. Select one of the following options:", <<>>),
                 Then(ThenAll([i \in 1..Len(types) |->
                          Then(W(ind, "# Option", <<ToString(i)>>), emit_derived_from(ctx, types[i], ind))]),
                      W(ind, "#", <<>>)))
            ELSE Then(W(ind, "derived_from:", tosca_type),
                 Then(When(has_one(s, "fraction-digits"),
                           emit_fraction_digits(search_one(s, "fraction-digits"), ind)),
                      emit_constraints(s, ind))),
            check_substmts(s, {"enum", "fraction-digits", "length", "range", "pattern", "type"}))

\* emit_uses_derived_from without create_qualified_name: the variant against
\* which C3 is checked
emit_uses_derived_from_unqualified(ctx, uses, ind) ==
    W(ind, "derived_from:", uses.arg)

emit_uses_derived_from(ctx, uses, ind) ==
    W(ind, "derived_from:", create_qualified_name(ctx, uses.arg, <<>>))

-----------------------------------------------------------------------------
(* Property definitions                                                    *)

PropertyKeywords == {"leaf", "leaf-list", "list", "container", "choice", "augment"}

is_attribute(s) == has_one(s, "config") /\ search_one(s, "config").arg = <<"false">>

\* has_single_uses_stmt_only with the number of 'uses' compared with 0:
\* the variant against which C2 is checked
has_no_uses_stmt(s) ==
    /\ Len(search(s, "uses")) = 0
    /\ \A i \in 1..Len(s.substmts) : s.substmts[i].keyword \notin PropertyKeywords

has_single_uses_stmt_only(s) ==
    /\ Len(search(s, "uses")) = 1
    /\ \A i \in 1..Len(s.substmts) : s.substmts[i].keyword \notin PropertyKeywords

get_single_uses_stmt_grouping(ctx, s) ==
    create_qualified_name(ctx, search(s, "uses")[1].arg, <<>>)

RECURSIVE has_properties(_)
has_properties(s) ==
    \/ \E i \in 1..Len(s.substmts) :
           s.substmts[i].keyword \in PropertyKeywords /\ ~is_attribute(s.substmts[i])
    \/ LET usess == search(s, "uses")
       IN \E i \in 2..Len(usess) : usess[i].ref # <<>> /\ has_properties(usess[i].ref[1])

RECURSIVE has_attributes(_)
has_attributes(s) ==
    \/ \E i \in 1..Len(s.substmts) :
           s.substmts[i].keyword \in PropertyKeywords /\ is_attribute(s.substmts[i])
    \/ LET usess == search(s, "uses")
       IN \E i \in 2..Len(usess) : usess[i].ref # <<>> /\ has_attributes(usess[i].ref[1])

\* The lines every property writes first: its name, description and metadata
property_head(s, ind) ==
    Then(W(ind, "name:", s.arg),
    Then(When(has_one(s, "description"), emit_description(search_one(s, "description"), ind + 1)),
         emit_metadata(s, ind + 1)))

emit_leaf(ctx, s, ind, prop, qualifier) ==
    IF is_attribute(s) = prop THEN <<>>
    ELSE Then(property_head(s, ind),
         Then(When(has_one(s, "type"), emit_type(ctx, search_one(s, "type"), ind + 1, qualifier)),
         Then(When(~is_attribute(s), emit_mandatory(search(s, "mandatory"), ind + 1)),
         Then(When(has_one(s, "default"), emit_default(search_one(s, "default"), ind + 1)),
         Then(When(has_one(s, "units"), emit_units(search_one(s, "units"), ind + 1)),
         Then(When(has_one(s, "when"), emit_when(search_one(s, "when"), ind + 1)),
         Then(When(has_one(s, "must"), emit_must(search_one(s, "must"), ind + 1)),
              check_substmts(s, {"reference", "description", "type", "units", "config",
                                 "mandatory", "default", "must", "when"}))))))))

emit_leaf_list(ctx, s, ind, prop, qualifier) ==
    IF is_attribute(s) = prop THEN <<>>
    ELSE Then(property_head(s, ind),
         Then(W(ind + 1, "type:", <<"list">>),
         Then(When(has_one(s, "type"),
                   Then(W(ind + 1, "entry_schema:", <<>>),
                        emit_type(ctx, search_one(s, "type"), ind + 2, qualifier))),
         Then(When(has_one(s, "units"), emit_units(search_one(s, "units"), ind + 1)),
         Then(emit_constraints(s, ind + 1),
         Then(When(has_one(s, "when"), emit_when(search_one(s, "when"), ind + 1)),
         Then(When(has_one(s, "must"), emit_must(search_one(s, "must"), ind + 1)),
              check_substmts(s, {"reference", "description", "type", "units", "config",
                                 "min-elements", "max-elements", "must", "when"}))))))))

\* type_name of emit_container, entry_schema of emit_list
property_type_name(ctx, s, qualifier) ==
    LET own == IF has_single_uses_stmt_only(s) THEN get_single_uses_stmt_grouping(ctx, s) ELSE s.arg
    IN IF qualifier # <<>> THEN qualifier \o <<":">> \o own ELSE own

emit_list(ctx, s, ind, prop, qualifier) ==
    IF is_attribute(s) = prop THEN <<>>
    ELSE Then(property_head(s, ind),
         Then(W(ind + 1, "type:", <<"list">>),
         Then(W(ind + 1, "entry_schema:", property_type_name(ctx, s, qualifier)),
         Then(emit_constraints(s, ind + 1),
         Then(When(has_one(s, "key"), emit_key(search_one(s, "key"), ind + 1)),
         Then(When(has_one(s, "unique"), emit_unique(search_one(s, "unique"), ind + 1)),
         Then(When(has_one(s, "ordered-by"), emit_ordered_by(search_one(s, "ordered-by"), ind + 1)),
              check_substmts(s, {"reference", "description", "config", "ordered-by", "typedef",
                                 "container", "grouping", "list", "uses", "key", "unique", "leaf",
                                 "leaf-list", "min-elements", "max-elements", "when", "must"}))))))))

emit_container(ctx, s, ind, prop, qualifier) ==
    IF is_attribute(s) = prop THEN <<>>
    ELSE Then(property_head(s, ind),
         Then(W(ind + 1, "type:", property_type_name(ctx, s, qualifier)),
         Then(When(has_one(s, "must"), emit_must(search_one(s, "must"), ind + 1)),
         Then(When(has_one(s, "presence"), emit_presence(search_one(s, "presence"), ind + 1)),
              check_substmts(s, {"reference", "description", "config", "presence", "typedef",
                                 "container", "grouping", "list", "uses", "leaf", "leaf-list",
                                 "when", "must"})))))

\* emit_properties and emit_data_types_in_stmt call the emitters below and are
\* called by them; emit_substmts is the forward declaration through which the
\* emitters reach the two.
RECURSIVE emit_substmts(_, _, _, _, _, _)

\* emit_case has no prop parameter: its call of emit_properties leaves prop
\* at its default, True.
emit_case(ctx, s, ind, qualifier) ==
    Then(W(ind, "# The following properties are used in case of", s.arg),
    Then(comment_lines(s, ind),
    Then(emit_substmts("properties", ctx, s, ind, TRUE, qualifier),
         check_substmts(s, {"leaf", "leaf-list", "list", "container", "choice", "description"}))))

emit_choice(ctx, s, ind, prop, qualifier) ==
    LET cases == search(s, "case")
        leafs == search(s, "leaf")
        options == IF cases # <<>> THEN cases ELSE leafs
    IN IF is_attribute(s) = prop THEN <<>>
       ELSE Then(W(ind, "name:", s.arg),
            Then(When(has_one(s, "description"), emit_description(search_one(s, "description"), ind + 1)),
            Then(W(ind + 1, "type:", <<"string">>),
            Then(When(~is_attribute(s), emit_mandatory(search(s, "mandatory"), ind + 1)),
            Then(When(has_one(s, "default"), emit_default(search_one(s, "default"), ind + 1)),
            Then(W(ind + 1, "constraints:", <<>>),
            Then(W(ind + 2, "- valid_values:", <<>>),
            Then([i \in 1..Len(options) |-> [ch |-> "fd", ind |-> ind + 3, k |-> "- ", v |-> options[i].arg]],
            Then(W(ind, "# Select one of the following options", <<>>) \o W(ind, "#", <<>>),
            Then(ThenAll([i \in 1..Len(cases) |-> emit_case(ctx, cases[i], ind, qualifier)]),
            Then(ThenAll([i \in 1..Len(leafs) |->
                     Then(W(ind, "# The following properties are used in case of", leafs[i].arg),
                          emit_leaf(ctx, leafs[i], ind, TRUE, qualifier))]),
            Then(W(ind, "# End of options", <<>>) \o W(ind, "#", <<>>),
                 check_substmts(s, {"case", "config", "default", "description", "leaf",
                                    "mandatory"})))))))))))))

\* emit_augment takes no qualifier parameter, so the call made for an
\* augment child raises TypeError before emit_augment runs.
emit_properties(ctx, s, ind, prop, qualifier) ==
    ThenAll([i \in 1..Len(s.substmts) |->
        LET sub == s.substmts[i]
        IN CASE sub.keyword = "leaf" -> emit_leaf(ctx, sub, ind, prop, qualifier)
             [] sub.keyword = "leaf-list" -> emit_leaf_list(ctx, sub, ind, prop, qualifier)
             [] sub.keyword = "list" -> emit_list(ctx, sub, ind, prop, qualifier)
             [] sub.keyword = "container" -> emit_container(ctx, sub, ind, prop, qualifier)
             [] sub.keyword = "choice" -> emit_choice(ctx, sub, ind, prop, qualifier)
             [] sub.keyword = "augment" -> Raise("TypeError")
             [] OTHER -> <<>>])

emit_use(ctx, s, use, ind, prop) ==
    IF use.ref = <<>> THEN Log("uses not found", PathStr(s) \o use.arg)
    ELSE IF (prop /\ ~has_properties(use.ref[1])) \/ (~prop /\ ~has_attributes(use.ref[1])) THEN <<>>
    ELSE LET prefix == IF Contains(use.arg, ":")
                          /\ (ctx.local_prefix = <<>> \/ before_colon(use.arg) # ctx.local_prefix[1])
                       THEN before_colon(use.arg) ELSE <<>>
         IN Then(W(ind, IF prop THEN "# properties from" ELSE "# attributes from", use.arg),
            Then(When(has_one(use, "if-feature"),
                      W(ind, "# Used only if the feature is enabled", search_one(use, "if-feature").arg)),
                 emit_substmts("properties", ctx, use.ref[1], ind, prop, prefix)))

emit_uses_properties(ctx, s, uses, ind) ==
    ThenAll([i \in 1..Len(uses) |-> emit_use(ctx, s, uses[i], ind, TRUE)])

emit_uses_attributes(ctx, s, uses, ind) ==
    ThenAll([i \in 1..Len(uses) |-> emit_use(ctx, s, uses[i], ind, FALSE)])

-----------------------------------------------------------------------------
(* Data Type Emitter                                                       *)

Blank == W(0, "", <<>>)

emit_typedef(ctx, s, ind) ==
    Then(W(ind, "name:", s.arg),
    Then(When(has_one(s, "description"), emit_description(search_one(s, "description"), ind + 1)),
    Then(When(has_one(s, "type"), emit_derived_from(ctx, search_one(s, "type"), ind + 1)),
    Then(When(has_one(s, "units"), emit_units(search_one(s, "units"), ind + 1)),
    Then(When(has_one(s, "default"), emit_commented_default(search_one(s, "default"), ind + 1)),
    Then(emit_metadata(s, ind + 1),
         check_substmts(s, {"default", "description", "reference", "type", "units"})))))))

\* s.arg.split('/'): the first and the last part
path_first(str) == IF Contains(str, "/") THEN SubSeq(str, 1, IndexOf(str, "/") - 1) ELSE str

RECURSIVE path_last(_)
path_last(str) ==
    IF Contains(str, "/") THEN path_last(SubSeq(str, IndexOf(str, "/") + 1, Len(str))) ELSE str

\* "# TOSCA data types do not support attributes" and the line after it
attributes_note(ind) ==
    W(ind, "# TOSCA data types do not support attributes", <<>>)
    \o W(ind, "# Enable attributes when converting to a node type", <<>>)

\* A variant that writes the name line of the type before the nested types
emit_data_type_self_first(ctx, s, ind) ==
    Then(W(ind, "name:", s.arg) \o Blank,
         emit_substmts("data_types", ctx, s, ind, TRUE, <<>>))

emit_data_type(ctx, s, ind) ==
    LET uses == search(s, "uses")
        has_props == has_properties(s)
    IN Then(emit_substmts("data_types", ctx, s, ind, TRUE, <<>>),
       Then(W(ind, "name:", s.arg),
       Then(When(has_one(s, "description"), emit_description(search_one(s, "description"), ind + 1)),
       Then(emit_metadata(s, ind + 1),
       Then(When(uses # <<>>, emit_uses_derived_from(ctx, uses[1], ind + 1)),
       Then(When(has_one(s, "when"), emit_when(search_one(s, "when"), ind + 1)),
       Then(When(has_one(s, "must"), emit_must(search_one(s, "must"), ind + 1)),
       Then(When(has_props,
                 Then(W(ind + 1, "properties:", <<>>),
                 Then(emit_substmts("properties", ctx, s, ind + 2, TRUE, <<>>),
                      When(Len(uses) > 1, emit_uses_properties(ctx, s, Tail(uses), ind + 2))))),
       Then(When(has_attributes(s),
                 Then(attributes_note(ind + 1),
                 Then(When(~has_props, W(ind + 1, "properties:", <<>>)),
                 Then(W(ind + 1, "# attributes:", <<>>),
                      emit_substmts("properties", ctx, s, ind + 2, FALSE, <<>>))))),
            When(Len(uses) > 1, emit_uses_attributes(ctx, s, Tail(uses), ind + 2)))))))))))

emit_grouping(ctx, s, ind) ==
    Then(emit_data_type(ctx, s, ind),
         check_substmts(s, {"choice", "container", "description", "grouping", "leaf",
                            "leaf-list", "list", "reference", "typedef", "uses"}))

emit_augmented_type(ctx, s, ind) ==
    LET uses == search(s, "uses")
    IN Then(emit_substmts("data_types", ctx, s, ind, TRUE, <<>>),
       Then(IF s.ref = <<>> THEN Raise("AttributeError") ELSE W(ind, "name:", s.ref[1].arg),
       Then(When(has_one(s, "description"), emit_description(search_one(s, "description"), ind + 1)),
       Then(When(has_one(s, "if-feature"), emit_if_feature(search_one(s, "if-feature"), ind + 1)),
       Then(When(path_first(s.arg) # <<>>, Log("Augment does not specify an absolute path", <<>>)),
       Then(W(ind + 1, "derived_from:", create_qualified_name(ctx, path_last(s.arg), <<>>)),
       Then(emit_metadata(s, ind + 1),
       Then(When(has_one(s, "when"), emit_when(search_one(s, "when"), ind + 1)),
       Then(When(has_one(s, "must"), emit_must(search_one(s, "must"), ind + 1)),
       Then(W(ind + 1, "properties:", <<>>),
       Then(emit_substmts("properties", ctx, s, ind + 2, TRUE, <<>>),
       Then(When(uses # <<>>, emit_uses_properties(ctx, s, uses, ind + 2)),
       Then(When(has_attributes(s),
                 Then(attributes_note(ind + 1),
                 Then(W(ind + 1, "# attributes:", <<>>),
                      emit_substmts("properties", ctx, s, ind + 2, FALSE, <<>>)))),
       Then(When(uses # <<>>, emit_uses_attributes(ctx, s, uses, ind + 2)),
            check_substmts(s, {"case", "choice", "container", "description", "if-feature", "leaf",
                               "leaf-list", "list", "reference", "uses", "when"})))))))))))))))

emit_data_types_in_stmt(ctx, s, ind) ==
    LET typedefs == search(s, "typedef")
        groupings == search(s, "grouping")
        containers == search(s, "container")
        lists == search(s, "list")
        usess == search(s, "uses")
        choices == search(s, "choice")
        augmentations == search(s, "augment")
    IN Then(ThenAll([i \in 1..Len(typedefs) |-> Then(emit_typedef(ctx, typedefs[i], ind), Blank)]),
       Then(ThenAll([i \in 1..Len(groupings) |-> Then(emit_grouping(ctx, groupings[i], ind), Blank)]),
       Then(ThenAll([i \in 1..Len(containers) |->
                When(~has_single_uses_stmt_only(containers[i]),
                     Then(emit_data_type(ctx, containers[i], ind), Blank))]),
       Then(ThenAll([i \in 1..Len(lists) |->
                When(~has_single_uses_stmt_only(lists[i]),
                     Then(emit_data_type(ctx, lists[i], ind), Blank))]),
       Then(ThenAll([i \in 1..Len(usess) |->
                LET augments == search(usess[i], "augment")
                IN ThenAll([j \in 1..Len(augments) |->
                       Then(Log("Warning: review augments", augments[j].arg \o usess[i].arg),
                       Then(emit_data_type(ctx, augments[j], ind), Blank))])]),
       Then(ThenAll([i \in 1..Len(choices) |->
                LET cases == search(choices[i], "case")
                IN ThenAll([j \in 1..Len(cases) |-> emit_substmts("data_types", ctx, cases[j], ind, TRUE, <<>>)])]),
            ThenAll([i \in 1..Len(augmentations) |->
                Then(emit_augmented_type(ctx, augmentations[i], ind), Blank)])))))))

emit_substmts(pass, ctx, s, ind, prop, qualifier) ==
    IF pass = "properties" THEN emit_properties(ctx, s, ind, prop, qualifier)
    ELSE emit_data_types_in_stmt(ctx, s, ind)

-----------------------------------------------------------------------------
(* Module Emitter                                                          *)

\* emit_module with the description written after the imports: the variant
\* against which C11 is checked
emit_module_description_late(ctx, s) ==
    LET ctx2 == [ctx EXCEPT !.local_prefix = local_prefix_after(ctx.local_prefix, s)]
    IN Then(W(0, "tosca_definitions_version:", <<"tosca_simple_yaml_1_3">>) \o Blank,
       Then(W(0, "# This template was auto-generated by yang2tosca from the YANG module", s.arg) \o Blank,
       Then(emit_metadata(s, 0),
       Then(Blank,
       Then(emit_imports_and_includes(ctx2, s, 0),
       Then(Blank,
       Then(When(has_one(s, "description"),
                 Then(emit_description(search_one(s, "description"), 0), Blank)),
       Then(W(0, "data_types:", <<>>) \o Blank,
            emit_substmts("data_types", ctx2, s, 1, TRUE, <<>>)))))))))

\* emit_prefix, called by emit_metadata, has assigned ctx.local_prefix when
\* the imports and the data types are written.
emit_module(ctx, s) ==
    LET ctx2 == [ctx EXCEPT !.local_prefix = local_prefix_after(ctx.local_prefix, s)]
    IN Then(W(0, "tosca_definitions_version:", <<"tosca_simple_yaml_1_3">>) \o Blank,
       Then(W(0, "# This template was auto-generated by yang2tosca from the YANG module", s.arg) \o Blank,
       Then(When(has_one(s, "description"),
                 Then(emit_description(search_one(s, "description"), 0), Blank)),
       Then(emit_metadata(s, 0),
       Then(Blank,
       Then(emit_imports_and_includes(ctx2, s, 0),
       Then(Blank,
       Then(W(0, "data_types:", <<>>) \o Blank,
       Then(emit_substmts("data_types", ctx2, s, 1, TRUE, <<>>),
            check_substmts(s, {"augment", "belongs-to", "contact", "container", "description",
                               "feature", "grouping", "import", "include", "list", "namespace",
                               "organization", "prefix", "reference", "revision", "typedef",
                               "uses", "yang-version"}))))))))))

-----------------------------------------------------------------------------
(* Plug-in setup: config.read_tosca_config and ToscaPlugin.setup_fmt       *)

\* A type map as the configuration file gives it
SampleTypeMap ==
    (<<"string">> :> <<"string">>) @@ (<<"uint8">> :> <<"integer">>)
    @@ (<<"decimal64">> :> <<"float">>) @@ (<<"enumeration">> :> <<"string">>)
    @@ (<<"union">> :> <<"union">>)

\* The states the configuration file can be in: readable YAML with a
\* type_map, readable YAML without one, and the three failures.
CfgFiles == {"ok", "no_type_map", "missing", "unreadable", "unparseable"}

CfgFailures == {"missing", "unreadable", "unparseable"}

\* The value read_tosca_config returns (<<>> is None) and what it prints
read_tosca_config(file) ==
    CASE file = "missing" ->
           [data |-> <<>>, log |-> Log("Use config file", <<>>) \o Log("Unable to open", <<>>)]
      [] file = "unreadable" ->
           [data |-> <<>>, log |-> Log("Use config file", <<>>) \o Log("Unable to read", <<>>)]
      [] file = "unparseable" ->
           [data |-> <<>>, log |-> Log("Use config file", <<>>) \o Log("Unable to parse", <<>>)]
      [] file = "no_type_map" ->
           [data |-> <<[other |-> <<>>]>>, log |-> Log("Use config file", <<>>)]
      [] OTHER ->
           [data |-> <<[type_map |-> SampleTypeMap]>>, log |-> Log("Use config file", <<>>)]

\* tosca_config['type_map'], and dict() on KeyError or TypeError
type_map_of(config) ==
    IF config # <<>> /\ "type_map" \in DOMAIN config[1] THEN config[1].type_map ELSE <<>>

-----------------------------------------------------------------------------
(* The modules of the model                                                *)

\* No statement has more than MaxKids of the menu's statements as children.
MaxKids == 2

Type(name) == Stmt("type", name, <<>>)

Leaf(name, type, substmts) == Stmt("leaf", <<name>>, substmts \o <<Type(type)>>)

ConfigFalse == Stmt("config", <<"false">>, <<>>)

Uses(name, grouping) == RefStmt("uses", name, <<>>, grouping)

\* Groupings of the module itself (G1) and of imported modules (G2, G3)
G1 ==
    Stmt("grouping", <<"G1">>,
         <<Leaf("g1a", <<"string">>, <<>>), Leaf("g1b", <<"uint8">>, <<ConfigFalse>>)>>)

G3 == Stmt("grouping", <<"G3">>, <<Leaf("g3a", <<"string">>, <<>>)>>)

G2 ==
    Stmt("grouping", <<"G2">>,
         <<Leaf("g2a", <<"p", ":", "t2">>, <<>>),
           Stmt("container", <<"g2c">>, <<Uses(<<"q", ":", "G3">>, <<G3>>)>>)>>)

\* The node an augment of the model extends
Target == Stmt("container", <<"T">>, <<Leaf("t", <<"string">>, <<>>)>>)

\* What a container, list, grouping or augment of the model may hold.
\* The order is the order of the children in the statement.
Menu ==
    << Uses(<<"Gx">>, <<>>),
       Uses(<<"G1">>, <<G1>>),
       Uses(<<"p", ":", "G2">>, <<G2>>),
       Uses(<<"p", ":", "Gy">>, <<>>),
       RefStmt("uses", <<"m", ":", "G1">>,
               <<RefStmt("augment", <<"g1a">>, <<Leaf("w", <<"string">>, <<>>)>>, <<>>)>>, <<G1>>),
       Leaf("a", <<"string">>, <<>>),
       Leaf("b", <<"uint8">>, <<ConfigFalse>>),
       Stmt("choice", <<"ch">>,
            <<Stmt("case", <<"A">>, <<Leaf("x", <<"string">>, <<>>)>>),
              Stmt("case", <<"B">>, <<Leaf("y", <<"string">>, <<ConfigFalse>>)>>)>>),
       Stmt("choice", <<"cl">>,
            <<Leaf("p", <<"string">>, <<>>), Leaf("q", <<"string">>, <<ConfigFalse>>)>>),
       Stmt("choice", <<"cm">>,
            <<Stmt("case", <<"C">>, <<Leaf("u", <<"string">>, <<>>)>>),
              Leaf("r", <<"string">>, <<>>)>>),
       Stmt("choice", <<"cf">>, <<ConfigFalse, Leaf("s", <<"string">>, <<>>)>>),
       Stmt("container", <<"ce">>, <<Uses(<<"G1">>, <<G1>>)>>),
       Stmt("container", <<"cn">>, <<Leaf("z", <<"m", ":", "t1">>, <<>>)>>),
       Stmt("container", <<"co">>,
            <<Stmt("typedef", <<"nt">>, <<Type(<<"string">>)>>),
              Stmt("container", <<"ci">>, <<Leaf("v", <<"string">>, <<>>)>>)>>),
       Stmt("choice", <<"cc">>,
            <<Stmt("case", <<"K">>,
                   <<Stmt("container", <<"kc">>, <<Leaf("k", <<"string">>, <<>>)>>)>>)>>),
       Stmt("choice", <<"cs">>,
            <<Stmt("container", <<"sc">>, <<Leaf("n", <<"string">>, <<>>)>>)>>),
       Stmt("list", <<"le">>, <<Stmt("key", <<"g2a">>, <<>>), Uses(<<"p", ":", "G2">>, <<G2>>)>>),
       RefStmt("augment", <<"/", "m", ":", "T">>, <<>>, <<>>),
       RefStmt("augment", <<"/", "m", ":", "T">>, <<>>, <<Target>>) >>

\* The children chosen by a set of menu positions, in menu order
RECURSIVE Pick(_, _, _)
Pick(menu, chosen, i) ==
    IF i > Len(menu) THEN <<>>
    ELSE (IF i \in chosen THEN <<menu[i]>> ELSE <<>>) \o Pick(menu, chosen, i + 1)

Bodies(menu) ==
    {Pick(menu, chosen, 1) : chosen \in {c \in SUBSET (1..Len(menu)) : Cardinality(c) <= MaxKids}}

StructuralSubjects ==
    {Stmt(kw, <<"S">>, body) : kw \in {"container", "list", "grouping"}, body \in Bodies(Menu)}
    \cup {RefStmt("augment", <<"/", "m", ":", "T">>, body, target) :
              body \in Bodies(Menu), target \in {<<>>, <<Target>>}}

\* The type statements of the typedefs of the model
TypeVariants ==
    { Type(<<"string">>),
      Type(<<"uint8">>),
      Type(<<"p", ":", "foo">>),
      Type(<<"m", ":", "bar">>),
      Stmt("type", <<"union">>, <<Type(<<"string">>), Type(<<"uint8">>)>>),
      Stmt("type", <<"string">>, <<Stmt("length", <<"1", "..", "10">>, <<>>)>>),
      Stmt("type", <<"uint8">>, <<Stmt("range", <<"1", "..", "10", "|", "20">>, <<>>)>>),
      Stmt("type", <<"decimal64">>, <<Stmt("fraction-digits", <<"2">>, <<>>)>>),
      Stmt("type", <<"enumeration">>,
           <<Stmt("enum", <<"o", "n">>, <<>>), Stmt("enum", <<"4", "2">>, <<>>)>>) }

TypedefMenu ==
    << Stmt("description", <<"a", "text">>, <<>>),
       Stmt("units", <<"seconds">>, <<>>),
       Stmt("default", <<"1">>, <<>>),
       Stmt("reference", <<"RFC", "7950">>, <<>>),
       Stmt("status", <<"current">>, <<>>) >>

TypedefSubjects ==
    {Stmt("typedef", <<"S">>, <<type>> \o body) : type \in TypeVariants, body \in Bodies(TypedefMenu)}

Subjects == StructuralSubjects \cup TypedefSubjects

Module(subject) ==
    Stmt("module", <<"m">>,
         << Stmt("namespace", <<"urn", ":", "m">>, <<>>),
            Stmt("prefix", <<"m">>, <<>>),
            Stmt("import", <<"other">>, <<Stmt("prefix", <<"p">>, <<>>)>>),
            G1,
            subject >>)

\* The module registry of pyang's context
Registry ==
    << Stmt("module", <<"other">>, <<Stmt("namespace", <<"urn", ":", "other">>, <<>>)>>),
       Stmt("module", <<"bare">>, <<>>),
       Stmt("submodule", <<"sub">>, <<Stmt("belongs-to", <<"m">>, <<>>)>>) >>

ModuleSeqs == {<<Module(subject)>> : subject \in Subjects}

-----------------------------------------------------------------------------
(* A run of the plug-in: setup_fmt, then emit over the modules             *)

Ctx == [type_map |-> type_map, local_prefix |-> local_prefix, registry |-> Registry]

Init ==
    /\ cfg_file \in CfgFiles
    /\ modules \in ModuleSeqs
    /\ pc = "setup"
    /\ idx = 1
    /\ type_map = <<>>
    /\ local_prefix = <<>>
    /\ fd = <<>>
    /\ stmt = <<>>

\* ToscaPlugin.setup_fmt
SetupFmt ==
    /\ pc = "setup"
    /\ type_map' = type_map_of(read_tosca_config(cfg_file).data)
    /\ fd' = fd \o read_tosca_config(cfg_file).log
    /\ pc' = "emit"
    /\ UNCHANGED <<cfg_file, modules, idx, local_prefix, stmt>>

\* One iteration of the loop of ToscaPlugin.emit: emit_module for the next
\* module.  An exception emit_module raises escapes emit.
EmitModule ==
    /\ pc = "emit"
    /\ idx <= Len(modules)
    /\ LET out == emit_module(Ctx, modules[idx])
       IN /\ fd' = fd \o out
          /\ pc' = IF Raised(out) THEN "raised" ELSE "emit"
          /\ idx' = IF Raised(out) THEN idx ELSE idx + 1
    /\ local_prefix' = local_prefix_after(local_prefix, modules[idx])
    /\ stmt' = <<modules[idx]>>
    /\ UNCHANGED <<cfg_file, modules, type_map>>

\* The loop of ToscaPlugin.emit has run through all modules
EmitReturn ==
    /\ pc = "emit"
    /\ idx > Len(modules)
    /\ pc' = "done"
    /\ UNCHANGED <<cfg_file, modules, idx, type_map, local_prefix, fd, stmt>>

Next == SetupFmt \/ EmitModule \/ EmitReturn

Spec == Init /\ [][Next]_vars

-----------------------------------------------------------------------------
(* The constraint translator on its own: one range, length, enum or bit    *)
(* statement is translated into an empty document.                         *)

\* No range or length argument has more than MaxClauses clauses.
MaxClauses == 2

\* No enum or bit value has more than MaxStrLen characters, the examples apart.
MaxStrLen == 3

RangeLows == {"min", "1", "-5", "-INF"}

RangeHighs == {"max", "10", "INF"}

RangeClauses ==
    {<<low>> : low \in RangeLows}
    \cup {<<low, "..", high>> : low \in RangeLows, high \in RangeHighs}
    \cup {<<"1", " ", "..", " ", "10", " ">>}

LengthBounds == {"min", "max", "1", "10"}

LengthClauses ==
    {<<low>> : low \in LengthBounds}
    \cup {<<low, "..", high>> : low \in LengthBounds, high \in LengthBounds}

\* The arguments of 1..n clauses, separated by "|"
RECURSIVE Arguments(_, _)
Arguments(clauses, n) ==
    IF n = 1 THEN clauses
    ELSE LET shorter == Arguments(clauses, n - 1)
         IN shorter \cup {a \o <<"|">> \o c : a \in shorter, c \in clauses}

ValueChars == {"1", "-", ".", "e", " ", "t"}

RECURSIVE Strings(_)
Strings(n) ==
    IF n = 0 THEN {<<>>}
    ELSE LET shorter == Strings(n - 1)
         IN shorter \cup {str \o <<c>> : str \in shorter, c \in ValueChars}

ValueExamples ==
    { <<"4", "2">>, <<"t", "r", "u", "e">>, <<"f", "a", "l", "s", "e">>,
      <<"n", "u", "l", "l">>, <<"~">>, <<"h", "e", "l", "l", "o">>,
      <<"2", "0", "2", "4", "-", "0", "1", "-", "0", "1">>,
      <<"2", "0", "2", "4", "-", "1", "-", "1", "T", "9", ":", "3", "0", ":", "0", "0", "Z">>,
      <<"2", "0", "2", "4", "-", "0", "1">>,
      <<"T", "r", "u", "e">>, <<"1", "_", "0">>, <<"i", "n", "f">>, <<"N", "a", "N">>,
      <<"0", "x", "1", "F">>, <<"+", "1", ".", "5", "e", "-", "3">> }

Values == (Strings(MaxStrLen) \ {<<>>}) \cup ValueExamples

ConstraintStmts ==
    {Stmt("range", arg, <<>>) : arg \in Arguments(RangeClauses, MaxClauses)}
    \cup {Stmt("length", arg, <<>>) : arg \in Arguments(LengthClauses, MaxClauses)}
    \cup {Stmt(kw, arg, subs) : kw \in {"enum", "bit"}, arg \in Values,
                                subs \in {<<>>, <<Stmt("value", <<"7">>, <<>>)>>}}

InitConstraints ==
    /\ stmt \in {<<s>> : s \in ConstraintStmts}
    /\ pc = "translate"
    /\ fd = <<>>
    /\ cfg_file = "ok"
    /\ modules = <<>>
    /\ idx = 1
    /\ type_map = SampleTypeMap
    /\ local_prefix = <<>>

EmitInRange ==
    /\ pc = "translate"
    /\ stmt[1].keyword = "range"
    /\ fd' = emit_in_range(stmt[1], 0)
    /\ pc' = "translated"
    /\ UNCHANGED <<cfg_file, modules, idx, type_map, local_prefix, stmt>>

EmitLength ==
    /\ pc = "translate"
    /\ stmt[1].keyword = "length"
    /\ fd' = emit_length(stmt[1], 0)
    /\ pc' = "translated"
    /\ UNCHANGED <<cfg_file, modules, idx, type_map, local_prefix, stmt>>

EmitEnum ==
    /\ pc = "translate"
    /\ stmt[1].keyword = "enum"
    /\ fd' = emit_enum(stmt[1], 0)
    /\ pc' = "translated"
    /\ UNCHANGED <<cfg_file, modules, idx, type_map, local_prefix, stmt>>

EmitBit ==
    /\ pc = "translate"
    /\ stmt[1].keyword = "bit"
    /\ fd' = emit_bit(stmt[1], 0)
    /\ pc' = "translated"
    /\ UNCHANGED <<cfg_file, modules, idx, type_map, local_prefix, stmt>>

NextConstraints == EmitInRange \/ EmitLength \/ EmitEnum \/ EmitBit

SpecConstraints == InitConstraints /\ [][NextConstraints]_vars

-----------------------------------------------------------------------------
(* The head of the document: modules and submodules that differ in their   *)
(* description, their metadata statements, their imports and includes      *)

\* No module of this family has more than MaxImports imports and includes.
MaxImports == 3

MetaMenu ==
    << Stmt("description", <<"a", "module">>, <<>>),
       Stmt("yang-version", <<"1.1">>, <<>>),
       Stmt("organization", <<"org">>, <<>>),
       Stmt("contact", <<"who">>, <<>>),
       Stmt("namespace", <<"urn", ":", "m">>, <<>>),
       Stmt("prefix", <<"m">>, <<>>),
       Stmt("belongs-to", <<"parent">>, <<Stmt("prefix", <<"m">>, <<>>)>>),
       Stmt("revision", <<"2024-01-01">>, <<Stmt("description", <<"first">>, <<>>)>>),
       Stmt("reference", <<"RFC", "7950">>, <<>>),
       Stmt("feature", <<"f">>, <<Stmt("description", <<"optional">>, <<>>)>>) >>

\* Imports of a module that is registered with a namespace, of one that is
\* registered without, and of one that is not registered; includes likewise
ImportMenu ==
    << Stmt("import", <<"other">>, <<Stmt("prefix", <<"p">>, <<>>)>>),
       Stmt("import", <<"bare">>, <<Stmt("prefix", <<"b">>, <<>>)>>),
       Stmt("import", <<"gone">>, <<Stmt("prefix", <<"g">>, <<>>)>>),
       Stmt("include", <<"other">>, <<>>),
       Stmt("include", <<"sub">>, <<>>),
       Stmt("include", <<"lost">>, <<>>) >>

ImportBodies ==
    {Pick(ImportMenu, chosen, 1) :
        chosen \in {c \in SUBSET (1..Len(ImportMenu)) : Cardinality(c) <= MaxImports}}

\* The one type every module of this family defines
T0 == Stmt("typedef", <<"t0">>, <<Type(<<"string">>)>>)

\* Revisions and features with and without description, reference and status
HistoryMenu ==
    << Stmt("revision", <<"2024-02-02">>, <<Stmt("description", <<"second">>, <<>>)>>),
       Stmt("revision", <<"2024-01-01">>, <<Stmt("reference", <<"RFC", "7950">>, <<>>)>>),
       Stmt("revision", <<"2023-12-31">>, <<>>),
       Stmt("feature", <<"f1">>, <<Stmt("description", <<"optional">>, <<>>)>>),
       Stmt("feature", <<"f2">>, <<Stmt("status", <<"deprecated">>, <<>>)>>),
       Stmt("feature", <<"f3">>,
            <<Stmt("description", <<"third">>, <<>>), Stmt("reference", <<"RFC", "7950">>, <<>>),
              Stmt("status", <<"current">>, <<>>)>>) >>

HeadModules ==
    {Stmt(kw, <<"m">>, Pick(MetaMenu, chosen, 1) \o <<T0>>) :
        kw \in {"module", "submodule"}, chosen \in SUBSET (1..Len(MetaMenu))}
    \cup {Stmt(kw, <<"m">>, <<MetaMenu[5], MetaMenu[6]>> \o imports \o <<T0>>) :
              kw \in {"module", "submodule"}, imports \in ImportBodies}
    \cup {Stmt(kw, <<"m">>, <<MetaMenu[5], MetaMenu[6]>> \o Pick(HistoryMenu, chosen, 1) \o <<T0>>) :
              kw \in {"module", "submodule"}, chosen \in SUBSET (1..Len(HistoryMenu))}

InitHeads ==
    /\ cfg_file = "ok"
    /\ modules \in {<<module>> : module \in HeadModules}
    /\ pc = "setup"
    /\ idx = 1
    /\ type_map = <<>>
    /\ local_prefix = <<>>
    /\ fd = <<>>
    /\ stmt = <<>>

SpecHeads == InitHeads /\ [][Next]_vars

-----------------------------------------------------------------------------
(* The type resolver on its own: one typedef, one leaf, or one 'uses'      *)
(* whose grouping holds one leaf, is translated into an empty document     *)
(* under each local prefix and type map.                                   *)

TypeNames ==
    { <<"string">>, <<"uint8">>, <<"foo">>, <<"m", ":", "bar">>, <<"p", ":", "foo">>,
      <<"q", ":", "r", ":", "baz">> }

\* Unions of two and three member types, one of them with a union as member
UnionTypes ==
    { Stmt("type", <<"union">>, <<Type(<<"string">>), Type(<<"m", ":", "bar">>)>>),
      Stmt("type", <<"union">>,
           <<Type(<<"p", ":", "foo">>),
             Stmt("type", <<"union">>, <<Type(<<"uint8">>), Type(<<"foo">>)>>),
             Type(<<"string">>)>>) }

TypeStmts == {Type(name) : name \in TypeNames} \cup UnionTypes

UsesNames == { <<"G">>, <<"m", ":", "G">>, <<"p", ":", "G">>, <<"q", ":", "G">> }

TypedStmts ==
    {Stmt("typedef", <<"S">>, <<type>>) : type \in TypeStmts}
    \cup {Stmt("leaf", <<"l">>, <<type>>) : type \in TypeStmts}
    \cup {Uses(name, <<Stmt("grouping", <<"G">>, <<Stmt("leaf", <<"l">>, <<type>>)>>)>>) :
              name \in UsesNames, type \in TypeStmts}

LocalPrefixes == { <<>>, << <<"m">> >>, << <<"p">> >> }

InitTypes ==
    /\ stmt \in {<<s>> : s \in TypedStmts}
    /\ local_prefix \in LocalPrefixes
    /\ type_map \in {SampleTypeMap, <<>>}
    /\ pc = "translate"
    /\ fd = <<>>
    /\ cfg_file = "ok"
    /\ modules = <<>>
    /\ idx = 1

EmitTypedef ==
    /\ pc = "translate"
    /\ stmt[1].keyword = "typedef"
    /\ fd' = emit_typedef(Ctx, stmt[1], 0)
    /\ pc' = "translated"
    /\ UNCHANGED <<cfg_file, modules, idx, type_map, local_prefix, stmt>>

EmitLeaf ==
    /\ pc = "translate"
    /\ stmt[1].keyword = "leaf"
    /\ fd' = emit_leaf(Ctx, stmt[1], 0, TRUE, <<>>)
    /\ pc' = "translated"
    /\ UNCHANGED <<cfg_file, modules, idx, type_map, local_prefix, stmt>>

\* emit_use for a 'uses' of a container S
EmitUse ==
    /\ pc = "translate"
    /\ stmt[1].keyword = "uses"
    /\ fd' = emit_use(Ctx, Stmt("container", <<"S">>, stmt), stmt[1], 0, TRUE)
    /\ pc' = "translated"
    /\ UNCHANGED <<cfg_file, modules, idx, type_map, local_prefix, stmt>>

NextTypes == EmitTypedef \/ EmitLeaf \/ EmitUse

SpecTypes == InitTypes /\ [][NextTypes]_vars

-----------------------------------------------------------------------------
(* Reading a run: the module that was translated, the statement under      *)
(* study in it, and the document that was written                          *)

Document == SelectSeq(fd, LAMBDA l : l.ch = "fd")

Printed == SelectSeq(fd, LAMBDA l : l.ch = "log")

\* ToscaPlugin.emit has returned
Translated == pc = "done"

TheModule == stmt[1]

Subject == TheModule.substmts[Len(TheModule.substmts)]

OwnPrefix == search_one(TheModule, "prefix").arg

Children(s) == {s.substmts[i] : i \in 1..Len(s.substmts)}

ChildrenOfKind(s, kw) == {c \in Children(s) : c.keyword = kw}

Min(S) == CHOOSE x \in S : \A y \in S : x <= y

\* The name under which the subject's type definition is written
SubjectTypeName ==
    IF Subject.keyword = "augment"
    THEN (IF Subject.ref = <<>> THEN <<>> ELSE Subject.ref[1].arg)
    ELSE Subject.arg

\* The type definition of a name: the lines from its name line at the top
\* level of data_types to the blank line that closes it
TypeDefinition(name) ==
    LET doc == Document
        starts == {i \in 1..Len(doc) : doc[i].k = "name:" /\ doc[i].ind = 1 /\ doc[i].v = name}
    IN IF starts = {} THEN <<>>
       ELSE LET first == Min(starts)
                ends == {j \in first..Len(doc) : doc[j].k = ""}
            IN SubSeq(doc, first, IF ends = {} THEN Len(doc) ELSE Min(ends) - 1)

\* The position of the '# attributes:' marker in a type definition, or the
\* position after its last line
AttributesMarker(def) ==
    LET at == {i \in 1..Len(def) : def[i].k = "# attributes:"}
    IN IF at = {} THEN Len(def) + 1 ELSE Min(at)

\* The leafs of a statement: its own, those of its choices and those of the
\* cases of its choices
LeafsUnder(s) ==
    LET choices == ChildrenOfKind(s, "choice")
        cases == UNION {ChildrenOfKind(c, "case") : c \in choices}
    IN ChildrenOfKind(s, "leaf")
       \cup UNION {ChildrenOfKind(c, "leaf") : c \in choices}
       \cup UNION {ChildrenOfKind(c, "leaf") : c \in cases}

-----------------------------------------------------------------------------
(* C1  Property/attribute partition                                        *)

\* C1: in every completed run, every leaf of the subject (its own leafs, the
\* leafs directly under its choices and the leafs of the cases of its
\* choices) is an attribute iff it has a 'config' child with argument
\* 'false'; an attribute leaf is written only after the '# attributes:'
\* marker of the subject's type definition, and every other leaf only
\* before it.
C1_LeafsArePartitioned ==
    Translated =>
        \A l \in LeafsUnder(Subject) :
            /\ is_attribute(l) = (\E c \in Children(l) : c.keyword = "config" /\ c.arg = <<"false">>)
            /\ LET def == TypeDefinition(SubjectTypeName)
               IN \A i \in 1..Len(def) :
                      (def[i].k = "name:" /\ def[i].v = l.arg)
                          => (is_attribute(l) <=> i > AttributesMarker(def))

-----------------------------------------------------------------------------
(* C2  Single-uses elision                                                 *)

\* A container or list with exactly one 'uses' child and no leaf, leaf-list,
\* list, container, choice or augment child
Elided(c) ==
    /\ c.keyword \in {"container", "list"}
    /\ Cardinality({i \in 1..Len(c.substmts) : c.substmts[i].keyword = "uses"}) = 1
    /\ \A x \in Children(c) :
           x.keyword \notin {"leaf", "leaf-list", "list", "container", "choice", "augment"}

HasPrefix(name) == Len(name) > 2 /\ name[2] = ":"

\* The name of a grouping as the module refers to it: the module's own
\* prefix is dropped, a foreign prefix stays
GroupingName(name) ==
    IF HasPrefix(name) /\ <<name[1]>> = OwnPrefix THEN SubSeq(name, 3, Len(name)) ELSE name

\* The foreign prefix of a 'uses' whose properties are copied, <<>> if none
QualifierOf(use) ==
    IF HasPrefix(use.arg) /\ <<use.arg[1]>> # OwnPrefix THEN <<use.arg[1]>> ELSE <<>>

\* The 'uses' of the subject whose grouping is resolved and copied: all but
\* the first, and all of them for a module-level augment
CopiedUses ==
    LET uses == search(Subject, "uses")
        from == IF Subject.keyword = "augment" THEN 1 ELSE 2
    IN {uses[i] : i \in {j \in from..Len(uses) : uses[j].ref # <<>>}}

\* The elided containers and lists to which a property of the subject's type
\* definition refers, each with the qualifier of the copy that brings it
ElidedReferences ==
    {[c |-> c, q |-> <<>>] : c \in {x \in Children(Subject) : Elided(x)}}
    \cup UNION {{[c |-> c, q |-> QualifierOf(u)] : c \in {x \in Children(u.ref[1]) : Elided(x)}} :
                    u \in CopiedUses}

-----------------------------------------------------------------------------
(* C3  Derivation vs. copy                                                 *)

\* The names of the direct property statements of a grouping that are
\* attributes (attr = TRUE) or are not (attr = FALSE), in source order
DirectNames(g, attr) ==
    LET own == SelectSeq(g.substmts,
                         LAMBDA c : c.keyword \in PropertyKeywords /\ is_attribute(c) = attr)
    IN [n \in 1..Len(own) |-> own[n].arg]

\* The names of the properties written in a type definition after line i,
\* up to the next provenance comment or the next key of the type itself
NamesAfter(def, i) ==
    LET stops == {j \in (i + 1)..Len(def) :
                      def[j].ind <= 2 \/ def[j].k \in {"# properties from", "# attributes from"}}
        stop == IF stops = {} THEN Len(def) + 1 ELSE Min(stops)
        names == SelectSeq(SubSeq(def, i + 1, stop - 1), LAMBDA l : l.k = "name:" /\ l.ind = 3)
    IN [n \in 1..Len(names) |-> names[n].v]

\* A copy of the properties (attr = FALSE) or attributes (attr = TRUE) of the
\* grouping of a 'uses' is in the type definition, in the right pass, after
\* its provenance comment
CopyIsWritten(def, use, attr) ==
    \E i \in 1..Len(def) :
        /\ def[i].k = (IF attr THEN "# attributes from" ELSE "# properties from")
        /\ def[i].v = use.arg
        /\ attr <=> i > AttributesMarker(def)
        /\ NamesAfter(def, i) = DirectNames(use.ref[1], attr)

\* The subject is a container, list or grouping with a 'uses' child and
\* emit_data_type has written its type definition
DataTypeWithUses ==
    /\ Translated
    /\ Subject.keyword \in {"container", "list", "grouping"}
    /\ search(Subject, "uses") # <<>>
    /\ TypeDefinition(Subject.arg) # <<>>

\* C3: the type definition that emit_data_type writes for a container, list
\* or grouping with 'uses' children has exactly one 'derived_from' line and
\* it names the grouping of the first 'uses'; for every later 'uses' whose
\* grouping is resolved, the grouping's properties are in the properties
\* pass and its attributes in the attribute pass, each copy after a
\* provenance comment that names the argument of the 'uses'.
C3_DerivationVsCopy ==
    DataTypeWithUses =>
        LET def == TypeDefinition(Subject.arg)
            uses == search(Subject, "uses")
            derived == {i \in 1..Len(def) : def[i].k = "derived_from:"}
        IN /\ Cardinality(derived) = 1
           /\ \A i \in derived : def[i].v = GroupingName(uses[1].arg)
           /\ \A n \in 2..Len(uses) :
                  uses[n].ref # <<>> =>
                      /\ DirectNames(uses[n].ref[1], FALSE) # <<>> => CopyIsWritten(def, uses[n], FALSE)
                      /\ DirectNames(uses[n].ref[1], TRUE) # <<>> => CopyIsWritten(def, uses[n], TRUE)

\* C3 witness: a type definition with two 'uses', the second of a resolved
\* grouping whose properties and attributes are both copied
C3_Witness ==
    /\ DataTypeWithUses
    /\ LET def == TypeDefinition(Subject.arg)
           uses == search(Subject, "uses")
       IN /\ Len(uses) = 2
          /\ uses[2].ref # <<>>
          /\ CopyIsWritten(def, uses[2], FALSE)
          /\ CopyIsWritten(def, uses[2], TRUE)
          /\ DirectNames(uses[2].ref[1], TRUE) # <<>>
          /\ DirectNames(uses[2].ref[1], FALSE) # <<>>

-----------------------------------------------------------------------------
(* C4  Choice flattening                                                   *)

\* The values of the lines with key k among the lines of a sequence
ValuesOf(lines, k) ==
    LET with == SelectSeq(lines, LAMBDA l : l.k = k)
    IN [n \in 1..Len(with) |-> with[n].v]

\* The names of the children of one keyword, in source order
NamesOfKind(s, kw) == [n \in 1..Len(search(s, kw)) |-> search(s, kw)[n].arg]

\* C4: in every completed run, every choice of the subject that is written
\* is one property of 'type: string' whose valid_values are the names of its
\* cases in source order (of its leafs if it has no case), followed by
\* exactly one option block per listed name, in the same order.
C4_ChoiceFlattening ==
    Translated =>
        \A c \in ChildrenOfKind(Subject, "choice") : \A i \in 1..Len(Document) :
            (Document[i].k = "name:" /\ Document[i].ind = 3 /\ Document[i].v = c.arg)
                => \E last \in (i + 1)..Len(Document) :
                       /\ Document[last].k = "# End of options"
                       /\ \A n \in i..(last - 1) : Document[n].k # "# End of options"
                       /\ LET lines == SubSeq(Document, i, last)
                              options == Min({n \in 1..Len(lines) :
                                                  lines[n].k \in {"# Select one of the following options",
                                                                  "# End of options"}})
                              property == SubSeq(lines, 1, options - 1)
                              listed == ValuesOf(property, "- ")
                          IN /\ ValuesOf(property, "type:") = << <<"string">> >>
                             /\ ValuesOf(property, "- valid_values:") = << <<>> >>
                             /\ listed = (IF has_one(c, "case") THEN NamesOfKind(c, "case")
                                          ELSE NamesOfKind(c, "leaf"))
                             /\ ValuesOf(lines, "# The following properties are used in case of")
                                    = listed

-----------------------------------------------------------------------------
(* C5  Unresolved uses                                                     *)

\* How often the warning for an unresolved 'uses' of the subject is printed
WarningsFor(use) ==
    Cardinality({i \in 1..Len(Printed) :
                     Printed[i].k = "uses not found" /\ Printed[i].v = Subject.arg \o use.arg})

\* C5: a module whose subject (container, list, grouping or module-level
\* augment) has unresolved 'uses' children is translated to the end, the
\* type definition of grouping G1, which depends on none of them, is
\* written, and for each unresolved 'uses' the 'not found' warning is
\* printed exactly once.
C5_OneWarningPerUnresolvedUses ==
    (/\ pc \in {"done", "raised"}
     /\ Subject.keyword \in {"container", "list", "grouping", "augment"}
     /\ Subject.ref # <<>> \/ Subject.keyword # "augment"
     /\ \A c \in Children(Subject) : c.keyword = "uses" /\ c.ref = <<>>
     /\ Children(Subject) # {})
        => /\ Translated
           /\ TypeDefinition(<<"G1">>) # <<>>
           /\ \A u \in Children(Subject) : WarningsFor(u) = 1

-----------------------------------------------------------------------------
(* C6  Minimal typedef                                                     *)

\* The type to which a type name is mapped: its entry in the type map, or
\* the name itself without the module's own prefix
MappedType(name) == IF name \in DOMAIN type_map THEN type_map[name] ELSE GroupingName(name)

HasChildOfKind(s, kinds) == \E c \in Children(s) : c.keyword \in kinds

\* The subject is a typedef without 'default', 'units' and constraint
\* substatements of its type, and the module is translated
PlainTypedef ==
    /\ Translated
    /\ Subject.keyword = "typedef"
    /\ has_one(Subject, "type")
    /\ ~HasChildOfKind(Subject, {"default", "units"})
    /\ ~HasChildOfKind(search_one(Subject, "type"), {"length", "range", "pattern", "enum", "bit"})

\* The type definition of the subject is its name line and one derived_from
\* line with the mapped type, and nothing else
TwoKeys ==
    LET def == TypeDefinition(Subject.arg)
    IN /\ Len(def) = 2
       /\ def[1].k = "name:" /\ def[1].v = Subject.arg
       /\ def[2].k = "derived_from:" /\ def[2].v = MappedType(search_one(Subject, "type").arg)

\* C6 as stated: every typedef without 'default', 'units' and constraint
\* substatements is written as exactly its name line and one derived_from
\* line with the mapped type, whatever other substatements it has.
C6_MinimalTypedef_AsStated == PlainTypedef => TwoKeys

\* C6 amended: a typedef without 'default', 'units' and constraint
\* substatements, that also has no 'description', no child that
\* emit_metadata folds (reference, ...), no 'fraction-digits', 'min-elements'
\* or 'max-elements' under its type, and whose type is not mapped to 'union',
\* is written as exactly its name line and one derived_from line with the
\* mapped type; a 'status' child changes nothing.
C6_MinimalTypedef ==
    (/\ PlainTypedef
     /\ ~HasChildOfKind(Subject, {"description", "reference", "yang-version", "organization",
                                  "contact", "namespace", "prefix", "revision", "feature"})
     /\ ~HasChildOfKind(search_one(Subject, "type"),
                        {"fraction-digits", "min-elements", "max-elements"})
     /\ MappedType(search_one(Subject, "type").arg) # <<"union">>)
        => TwoKeys

\* C6 witness: a translated typedef of a type the type map maps to another
\* name, with a 'status' child, written as its two lines
C6_Witness ==
    /\ PlainTypedef
    /\ has_one(Subject, "status")
    /\ search_one(Subject, "type").arg = <<"uint8">>
    /\ type_map # <<>>
    /\ TwoKeys
    /\ TypeDefinition(Subject.arg)[2].v = <<"integer">>

-----------------------------------------------------------------------------
(* C7  Range translation                                                   *)

\* The clauses of a range argument: the token runs between "|" tokens,
\* blanks left out
RECURSIVE ClausesOf(_, _)
ClausesOf(arg, acc) ==
    IF arg = <<>> THEN <<acc>>
    ELSE IF Head(arg) = "|" THEN <<acc>> \o ClausesOf(Tail(arg), <<>>)
    ELSE IF Head(arg) \in Blanks THEN ClausesOf(Tail(arg), acc)
    ELSE ClausesOf(Tail(arg), acc \o <<Head(arg)>>)

IsBounded(clause) == \E i \in 1..Len(clause) : clause[i] = ".."

\* The bounds of a clause 'low..high' as in_range carries them: the sentinel
\* 'min' of a lower bound and 'max' of an upper bound read UNBOUNDED
BoundsOf(clause) ==
    << IF clause[1] = "min" THEN "UNBOUNDED" ELSE clause[1],
       IF clause[Len(clause)] = "max" THEN "UNBOUNDED" ELSE clause[Len(clause)] >>

RangeTranslated == pc = "translated" /\ stmt[1].keyword = "range"

-----------------------------------------------------------------------------
(* C8  Escaping rule                                                       *)

Keywords == { <<"t", "r", "u", "e">>, <<"f", "a", "l", "s", "e">>, <<"n", "u", "l", "l">>, <<"~">> }

\* The value reads as an integer, as a floating-point number, as a boolean
\* or null keyword, or as a date or timestamp
ReadsAsScalar(s) == int_ok(s) \/ float_ok(s) \/ s \in Keywords \/ timestamp_match(s)

StartsWith(str, prefix) ==
    Len(str) >= Len(prefix) /\ SubSeq(str, 1, Len(prefix)) = prefix

ValueTranslated == pc = "translated" /\ stmt[1].keyword \in {"enum", "bit"}

\* C8: must_escape is true exactly for the values that read as an integer, a
\* floating-point number, 'true', 'false', 'null', '~' or a date/timestamp
\* (so for '42', 'true' and '2024-01-01', and not for 'hello'), and emit_enum
\* and emit_bit write a value between single quotes exactly when must_escape
\* is true for it.
C8_EscapingRule ==
    /\ must_escape(<<"4", "2">>)
    /\ must_escape(<<"t", "r", "u", "e">>)
    /\ must_escape(<<"2", "0", "2", "4", "-", "0", "1", "-", "0", "1">>)
    /\ ~must_escape(<<"h", "e", "l", "l", "o">>)
    /\ ValueTranslated =>
          LET arg == stmt[1].arg
          IN /\ must_escape(arg) <=> ReadsAsScalar(arg)
             /\ fd # <<>> /\ fd[1].k = "- "
             /\ IF ReadsAsScalar(arg)
                THEN StartsWith(fd[1].v, <<"'">> \o arg \o <<"'">>)
                ELSE StartsWith(fd[1].v, arg) /\ Head(fd[1].v) # "'"

\* C8 witness: an enum whose name reads as a date has been written between
\* single quotes
C8_Witness ==
    /\ ValueTranslated
    /\ stmt[1].keyword = "enum"
    /\ stmt[1].arg = <<"2", "0", "2", "4", "-", "0", "1", "-", "0", "1">>
    /\ Head(fd[1].v) = "'"

-----------------------------------------------------------------------------
(* C9  Always produces output                                              *)

\* C9: no exception escapes ToscaPlugin.emit, whatever the module holds.
C9_NoExceptionEscapes == pc # "raised"

-----------------------------------------------------------------------------
(* C10  Configuration load failure                                         *)

\* C10: when read_tosca_config cannot open, read or parse the configuration,
\* the run stops before emit_module is executed for any module.
C10_FailedLoadAborts ==
    cfg_file \in CfgFailures => (stmt = <<>> /\ Document = <<>>)

-----------------------------------------------------------------------------
(* C11  Document section order                                             *)

\* emit_module has run for the module
ModuleWritten == stmt # <<>>

\* The positions of the top-level lines of the document with one of the keys
TopLevel(keys) == {i \in 1..Len(Document) : Document[i].ind = 0 /\ Document[i].k \in keys}

VersionAt == TopLevel({"tosca_definitions_version:"})

AttributionAt == TopLevel({"# This template was auto-generated by yang2tosca from the YANG module"})

DescriptionAt == TopLevel({"description:", "description: >-"})

MetadataAt == TopLevel({"metadata:"})

ImportsAt == TopLevel({"imports:"})

DataTypesAt == TopLevel({"data_types:"})

\* The name lines of the type definitions
TypeNamesAt == {i \in 1..Len(Document) : Document[i].ind = 1 /\ Document[i].k = "name:"}

Before(A, B) == \A i \in A, j \in B : i < j

\* C11: emit_module writes the version header, the attribution comment with
\* the module's name, the description (iff the module has one), the metadata
\* block, the imports block and the data_types section in this order, each at
\* most once; no type definition precedes the data_types line, and after it
\* nothing but blank lines is written at the top level.
C11_SectionOrder ==
    ModuleWritten =>
        LET sections == <<VersionAt, AttributionAt, DescriptionAt, MetadataAt, ImportsAt, DataTypesAt>>
        IN /\ \A n \in 1..6 : Cardinality(sections[n]) <= 1
           /\ \A n \in 1..6 : \A k \in (n + 1)..6 : Before(sections[n], sections[k])
           /\ VersionAt = {1} /\ Document[1].v = <<"tosca_simple_yaml_1_3">>
           /\ AttributionAt = {3} /\ Document[3].v = TheModule.arg
           /\ DescriptionAt # {} <=> has_one(TheModule, "description")
           /\ ImportsAt # {}
           /\ Translated => DataTypesAt # {}
           /\ Before(DataTypesAt, TypeNamesAt) /\ (TypeNamesAt # {} => DataTypesAt # {})
           /\ \A j \in DataTypesAt : \A i \in (j + 1)..Len(Document) :
                 Document[i].ind = 0 => Document[i].k = ""

\* C11 witness: a translated module with a description, metadata and a type
\* definition, all six sections written
C11_Witness ==
    /\ ModuleWritten /\ Translated
    /\ DescriptionAt # {} /\ MetadataAt # {} /\ ImportsAt # {} /\ DataTypesAt # {}
    /\ has_one(TheModule, "organization")
    /\ TypeDefinition(<<"t0">>) # <<>>

-----------------------------------------------------------------------------
(* C12  Built-in import first                                              *)

\* The lines of the imports block: from the line after 'imports:' to the
\* blank line that closes the block, or to the end of the document
ImportsBlock ==
    IF ImportsAt = {} THEN <<>>
    ELSE LET first == Min(ImportsAt) + 1
             ends == {j \in first..Len(Document) : Document[j].k = ""}
         IN SubSeq(Document, first, IF ends = {} THEN Len(Document) ELSE Min(ends) - 1)

\* The entries of the imports block: the file each of them names
ImportEntries ==
    LET heads == SelectSeq(ImportsBlock, LAMBDA l : l.ind = 1 /\ l.k \in {"- file:", "- "})
    IN [i \in 1..Len(heads) |-> heads[i].v]

FileOf(s) == s.arg \o <<".yaml">>

FilesOf(stmts) == [i \in 1..Len(stmts) |-> FileOf(stmts[i])]

\* C12: for every module the imports block is written, its first entry is
\* the built-in library (file org.ietf:1.0, namespace_prefix inet), and the
\* entries after it are one per import in source order and then one per
\* include in source order.
C12_BuiltinImportFirst ==
    ModuleWritten =>
        /\ ImportsAt # {}
        /\ Len(ImportsBlock) >= 2
        /\ ImportsBlock[1] = W(1, "- file:", <<"org.ietf", ":", "1.0">>)[1]
        /\ ImportsBlock[2] = W(2, "namespace_prefix:", <<"inet">>)[1]
        /\ ImportEntries = <<IETF_NAMESPACE>> \o FilesOf(search(TheModule, "import"))
                              \o FilesOf(search(TheModule, "include"))

-----------------------------------------------------------------------------
(* C13  Import/include lookup is never fatal                               *)

\* The n-th smallest element of a set of numbers
Nth(S, n) == CHOOSE x \in S : Cardinality({y \in S : y < x}) = n - 1

\* The positions in the imports block at which an entry starts
EntryHeads == {i \in 1..Len(ImportsBlock) :
                  ImportsBlock[i].ind = 1 /\ ImportsBlock[i].k \in {"- file:", "- "}}

\* The lines of the n-th entry of the imports block
EntryLines(n) ==
    LET first == Nth(EntryHeads, n)
        last == IF n < Cardinality(EntryHeads) THEN Nth(EntryHeads, n + 1) - 1 ELSE Len(ImportsBlock)
    IN SubSeq(ImportsBlock, first, last)

HasLine(lines, k) == \E i \in 1..Len(lines) : lines[i].k = k

\* The lookup of the statement's module returns a module that declares a namespace
FoundWithNamespace(s) ==
    \E i \in 1..Len(Registry) : Registry[i].arg = s.arg /\ has_one(Registry[i], "namespace")

\* C13: for every import with a prefix and every include without one,
\* whatever the lookup returns, emit_import_or_include completes and writes
\* exactly one entry, with a '# namespace:' comment iff the module was found
\* with a namespace, and a 'namespace_prefix:' line only if the statement has
\* a prefix child.
C13_LookupNeverFatal ==
    ModuleWritten =>
        LET stmts == search(TheModule, "import") \o search(TheModule, "include")
        IN /\ pc # "raised"
           /\ Cardinality(EntryHeads) = 1 + Len(stmts)
           /\ \A n \in 1..Len(stmts) :
                 /\ EntryLines(n + 1)[1].v = FileOf(stmts[n])
                 /\ HasLine(EntryLines(n + 1), "# namespace:") <=> FoundWithNamespace(stmts[n])
                 /\ HasLine(EntryLines(n + 1), "namespace_prefix:") => has_one(stmts[n], "prefix")

-----------------------------------------------------------------------------
(* C14  Metadata folding                                                   *)

\* The statements emit_metadata folds, and the key under which each is written
MetadataKeys ==
    [kw \in {"yang-version", "organization", "contact", "namespace", "prefix", "belongs-to",
             "revision", "reference", "feature"} |->
        CASE kw = "revision" -> {"revisions:"}
          [] kw = "feature" -> {"features:"}
          [] kw \in {"organization", "contact", "reference"} -> {kw \o ":", kw \o ": >-"}
          [] OTHER -> {kw \o ":"}]

\* The lines of the module's metadata block: from the line after 'metadata:'
\* to the blank line that closes it
MetadataBlock ==
    IF MetadataAt = {} THEN <<>>
    ELSE LET first == Min(MetadataAt) + 1
             ends == {j \in first..Len(Document) : Document[j].k = ""}
         IN SubSeq(Document, first, IF ends = {} THEN Len(Document) ELSE Min(ends) - 1)

\* C14: every child of the module among yang-version, organization, contact,
\* namespace, prefix, belongs-to, revision, reference and feature is written
\* inside the one metadata block, and the 'metadata:' key is written iff
\* the module has at least one of them.
C14_MetadataFolding ==
    ModuleWritten =>
        /\ MetadataAt # {} <=> \E kw \in DOMAIN MetadataKeys : has_one(TheModule, kw)
        /\ \A kw \in DOMAIN MetadataKeys :
              has_one(TheModule, kw) =>
                 \E i \in 1..Len(MetadataBlock) :
                     MetadataBlock[i].ind = 1 /\ MetadataBlock[i].k \in MetadataKeys[kw]

-----------------------------------------------------------------------------
(* C15  Type reference resolution                                          *)

TypesTranslated == pc = "translated" /\ stmt[1].keyword \in {"typedef", "leaf", "uses"}

\* The type statement that is resolved
TypeUnderStudy ==
    IF stmt[1].keyword = "uses"
    THEN search_one(stmt[1].ref[1].substmts[1], "type")
    ELSE search_one(stmt[1], "type")

\* The qualifier with which the type is resolved: none for a typedef and for
\* a leaf of the module, the foreign prefix of the 'uses' for a copied leaf
QualifierInEffect ==
    IF stmt[1].keyword = "uses" /\ HasPrefix(stmt[1].arg) /\ << <<stmt[1].arg[1]>> >> # local_prefix
    THEN <<stmt[1].arg[1]>> ELSE <<>>

HasLocalPrefix(name) == HasPrefix(name) /\ << <<name[1]>> >> = local_prefix

Qualified(q, name) == IF q # <<>> THEN q \o <<":">> \o name ELSE name

\* The resolution of a name as C15 states it: the bare name for a name with
\* the local prefix
ResolvedAsStated(name, q) ==
    IF name \in DOMAIN type_map THEN type_map[name]
    ELSE IF HasLocalPrefix(name) THEN SubSeq(name, 3, Len(name))
    ELSE IF HasPrefix(name) THEN name
    ELSE Qualified(q, name)

\* The resolution with the qualifier prepended to every name that is, or has
\* become, unprefixed
Resolved(name, q) ==
    IF name \in DOMAIN type_map THEN type_map[name]
    ELSE IF HasLocalPrefix(name) THEN Qualified(q, SubSeq(name, 3, Len(name)))
    ELSE IF HasPrefix(name) THEN name
    ELSE Qualified(q, name)

\* The 'type:' and 'derived_from:' lines that were written
TypeKeys == SelectSeq(Document, LAMBDA l : l.k \in {"type:", "derived_from:"})

\* C15 as stated: a name of the type map resolves to its entry; a name with
\* the local prefix is written bare; a name with another prefix, or any
\* prefixed name when no local prefix is set, is written unchanged; an
\* unprefixed name is written with the caller's qualifier, if any, in front.
C15_TypeResolution_AsStated ==
    (TypesTranslated /\ TypeUnderStudy.arg # <<"union">>)
        => /\ Len(TypeKeys) = 1
           /\ TypeKeys[1].k = (IF stmt[1].keyword = "typedef" THEN "derived_from:" ELSE "type:")
           /\ TypeKeys[1].v = ResolvedAsStated(TypeUnderStudy.arg, QualifierInEffect)

\* C15 amended: as stated, except that a name with the local prefix is
\* written without that prefix and with the caller's qualifier, if any, in
\* front, like an unprefixed name.
C15_TypeResolution ==
    (TypesTranslated /\ TypeUnderStudy.arg # <<"union">>)
        => /\ Len(TypeKeys) = 1
           /\ TypeKeys[1].k = (IF stmt[1].keyword = "typedef" THEN "derived_from:" ELSE "type:")
           /\ TypeKeys[1].v = Resolved(TypeUnderStudy.arg, QualifierInEffect)

\* C15 witness: a leaf copied from a foreign grouping, whose type carries the
\* local prefix, has been written with the qualifier in place of the prefix
C15_Witness ==
    /\ TypesTranslated
    /\ stmt[1].keyword = "uses"
    /\ QualifierInEffect = <<"p">>
    /\ TypeUnderStudy.arg = <<"m", ":", "bar">>
    /\ local_prefix = << <<"m">> >>
    /\ Len(TypeKeys) = 1 /\ TypeKeys[1].v = <<"p", ":", "bar">>

-----------------------------------------------------------------------------
(* C16  Union handling                                                     *)

\* The type under study resolves to the reserved result 'union'
UnionTranslated ==
    /\ TypesTranslated
    /\ Resolved(TypeUnderStudy.arg, QualifierInEffect) = <<"union">>

\* The numbers of the '# Option' comments, in the order they were written
OptionNumbers ==
    LET options == SelectSeq(Document, LAMBDA l : l.k = "# Option")
    IN [i \in 1..Len(options) |-> options[i].v]

MemberTypes == search(TypeUnderStudy, "type")

\* The members of the union are listed: no key carries 'union' itself, and
\* for a union without a union among its members the options are numbered
\* 1..n and the n-th option is followed by the n-th member's resolution
MembersAreListed ==
    /\ \A i \in 1..Len(TypeKeys) : TypeKeys[i].v # <<"union">>
    /\ (\A i \in 1..Len(MemberTypes) : MemberTypes[i].arg # <<"union">>)
          => /\ OptionNumbers = [i \in 1..Len(MemberTypes) |-> <<ToString(i)>>]
             /\ \A n \in 1..Len(MemberTypes) :
                   \E i \in 1..(Len(Document) - 1) :
                       /\ Document[i].k = "# Option" /\ Document[i].v = <<ToString(n)>>
                       /\ Document[i + 1].v = Resolved(MemberTypes[n].arg, <<>>)

\* C16: for a type that resolves to 'union' no key carries the union itself;
\* the member types are written in source order, numbered from 1, as a
\* commented option list, and no active 'type:' or 'derived_from:' key is
\* written for the typed value.
C16_UnionHandling ==
    UnionTranslated => (MembersAreListed /\ TypeKeys = <<>>)

-----------------------------------------------------------------------------
(* C17  One type definition per structural statement                       *)

\* A statement and all statements below it
RECURSIVE Descendants(_)
Descendants(s) == {s} \cup UNION {Descendants(c) : c \in Children(s)}

\* The statements of the module for which a type definition is due
StructuralStmts ==
    {s \in Descendants(TheModule) :
        \/ s.keyword \in {"typedef", "grouping"}
        \/ s.keyword \in {"container", "list"} /\ ~Elided(s)
        \/ s.keyword = "augment" /\ s.ref # <<>>}

\* The name under which the type definition of a statement is written
DefinitionName(s) == IF s.keyword = "augment" THEN s.ref[1].arg ELSE s.arg

\* The number of type definitions written under a name
DefinitionsOf(name) ==
    Cardinality({i \in 1..Len(Document) :
                    Document[i].k = "name:" /\ Document[i].ind = 1 /\ Document[i].v = name})

\* C17: in every completed run, every typedef, grouping, non-elided
\* container or list, and augment of the module's statement tree, at any
\* depth and under any parent, has exactly one type definition in data_types.
C17_OneDefinitionPerStatement ==
    Translated => \A s \in StructuralStmts : DefinitionsOf(DefinitionName(s)) = 1

-----------------------------------------------------------------------------
(* C18  Multi-clause constraint policy                                     *)

ConstraintTranslated == pc = "translated" /\ stmt[1].keyword \in {"range", "length"}

\* The translation opens with the manual-fix comment and the 'or' key, and
\* every constraint is written below the 'or'
MarkedDisjunction ==
    /\ Len(fd) >= 2
    /\ fd[1] = W(0, "# This is not (yet) valid TOSCA. FIX MANUALLY", <<>>)[1]
    /\ fd[2] = W(0, "- or:", <<>>)[1]
    /\ \A i \in 3..Len(fd) : fd[i].ind >= 1

-----------------------------------------------------------------------------
(* C19  Sentinel omission                                                  *)

Sentinels == {"min", "max", "-INF", "INF"}

\* The argument is one clause with a low and a high bound
OneBoundedClause ==
    /\ ConstraintTranslated
    /\ Len(ClausesOf(stmt[1].arg, <<>>)) = 1
    /\ IsBounded(ClausesOf(stmt[1].arg, <<>>)[1])

\* What is written as a lower bound and as an upper bound
LowerBoundsWritten ==
    {fd[i].v[1] : i \in {j \in 1..Len(fd) : fd[j].k \in {"- min_length:", "- in_range:"}}}

UpperBoundsWritten ==
    {fd[i].v[1] : i \in {j \in 1..Len(fd) : fd[j].k = "- max_length:"}}
    \cup {fd[i].v[2] : i \in {j \in 1..Len(fd) : fd[j].k = "- in_range:"}}

\* C19: for a length or range argument of one clause 'low..high', low is
\* written as a lower bound and high as an upper bound, except that for a
\* bound that is a sentinel (min, max, -INF, INF) nothing is written.
C19_SentinelOmission ==
    OneBoundedClause =>
        LET clause == ClausesOf(stmt[1].arg, <<>>)[1]
            low == clause[1]
            high == clause[Len(clause)]
        IN /\ LowerBoundsWritten = (IF low \in Sentinels THEN {} ELSE {low})
           /\ UpperBoundsWritten = (IF high \in Sentinels THEN {} ELSE {high})

-----------------------------------------------------------------------------
(* C20  Single clause without high bound                                   *)

\* The argument is one clause without a '..' part
OneValue ==
    /\ ConstraintTranslated
    /\ Len(ClausesOf(stmt[1].arg, <<>>)) = 1
    /\ ~IsBounded(ClausesOf(stmt[1].arg, <<>>)[1])

\* C20: for a length argument that is one value (a number, 'min' or 'max')
\* emit_length writes exactly one 'max_length' constraint whose value is a
\* number; for a range argument that is one value emit_in_range writes
\* exactly one valid_values entry and no bound.
C20_SingleValue ==
    OneValue =>
        IF stmt[1].keyword = "length"
        THEN /\ Len(fd) = 1
             /\ fd[1].k = "- max_length:"
             /\ Len(fd[1].v) = 1 /\ fd[1].v[1] \in UnsignedInts
        ELSE fd = W(0, "- valid_values:", <<>>) \o W(1, "- ", ClausesOf(stmt[1].arg, <<>>)[1])

-----------------------------------------------------------------------------
(* C21  Revisions and features                                             *)

\* The lines of the metadata block under one of its keys: from the line
\* after the key to the next line at the key's own level
UnderKey(key) ==
    LET at == {i \in 1..Len(MetadataBlock) : MetadataBlock[i].ind = 1 /\ MetadataBlock[i].k = key}
    IN IF at = {} THEN <<>>
       ELSE LET first == Min(at) + 1
                ends == {j \in first..Len(MetadataBlock) : MetadataBlock[j].ind <= 1}
            IN SubSeq(MetadataBlock, first, IF ends = {} THEN Len(MetadataBlock) ELSE Min(ends) - 1)

\* The positions in the lines under a key at which an entry starts
EntriesAt(under) == {i \in 1..Len(under) : under[i].ind = 2}

\* The lines of the n-th entry, its name line left out
EntryBody(under, heads, n) ==
    SubSeq(under, Nth(heads, n) + 1,
           IF n < Cardinality(heads) THEN Nth(heads, n + 1) - 1 ELSE Len(under))

\* The n-th entry is the entry of the statement: keyed by its argument, with
\* a line for each of the listed children it has
IsEntryOf(under, heads, n, s, kinds) ==
    LET body == EntryBody(under, heads, n)
    IN /\ under[Nth(heads, n)].k = "'name':"
       /\ under[Nth(heads, n)].v = s.arg
       /\ \A kw \in kinds :
             has_one(s, kw) =>
                \E i \in 1..Len(body) :
                    /\ body[i].k \in {kw \o ":", kw \o ": >-"}
                    /\ body[i].k = kw \o ":" => body[i].v = search_one(s, kw).arg

\* The statements are written, in source order, as the entries under the key
AreEntries(key, stmts, kinds) ==
    LET under == UnderKey(key)
        heads == EntriesAt(under)
    IN /\ Cardinality(heads) = Len(stmts)
       /\ \A n \in 1..Len(stmts) : IsEntryOf(under, heads, n, stmts[n], kinds)

\* C21: every revision and every feature of the module is written, in
\* source order, as an entry keyed by its argument under 'revisions:' /
\* 'features:', and the entry has a line for each description, reference
\* and (for a feature) status child of the statement, the status line
\* carrying the status value.
C21_RevisionsAndFeatures ==
    ModuleWritten =>
        /\ AreEntries("revisions:", search(TheModule, "revision"), {"description", "reference"})
        /\ AreEntries("features:", search(TheModule, "feature"), {"description", "reference", "status"})

-----------------------------------------------------------------------------
(* Runs over several modules with one shared context                       *)

MaxModules == 2

\* A grouping of module n
Gn == Stmt("grouping", <<"Gn">>, <<Leaf("g", <<"foo">>, <<>>)>>)

\* The body of a module of a run: a typedef over a type of module m, a
\* typedef over a type of module n, and a container whose second uses copies
\* the properties of a grouping of module n.
RunBody(name) ==
    << Stmt("typedef", <<name, "-m">>, <<Type(<<"m", ":", "bar">>)>>),
       Stmt("typedef", <<name, "-n">>, <<Type(<<"n", ":", "bar">>)>>),
       Stmt("container", <<name, "-c">>,
            <<Uses(<<"G1">>, <<G1>>), Uses(<<"n", ":", "Gn">>, <<Gn>>)>>) >>

RunModule(name) ==
    Stmt("module", <<name>>,
         <<Stmt("namespace", <<"urn", ":", name>>, <<>>), Stmt("prefix", <<name>>, <<>>)>>
         \o RunBody(name))

\* A submodule has no prefix statement of its own
RunSubmodule(name, parent) ==
    Stmt("submodule", <<name>>,
         <<Stmt("belongs-to", <<parent>>, <<Stmt("prefix", <<parent>>, <<>>)>>)>>
         \o RunBody(name))

RunModules ==
    { RunModule("m"), RunModule("n"), RunModule("p"),
      RunSubmodule("s", "m"), RunSubmodule("r", "n") }

RECURSIVE SeqsUpTo(_, _)
SeqsUpTo(S, n) ==
    IF n = 0 THEN {<<>>}
    ELSE LET shorter == SeqsUpTo(S, n - 1)
         IN shorter \cup {Append(q, x) : q \in shorter, x \in S}

InitRuns ==
    /\ cfg_file = "ok"
    /\ modules \in SeqsUpTo(RunModules, MaxModules) \ {<<>>}
    /\ pc = "setup"
    /\ idx = 1
    /\ type_map = <<>>
    /\ local_prefix = <<>>
    /\ fd = <<>>
    /\ stmt = <<>>

SpecRuns == InitRuns /\ [][Next]_vars

-----------------------------------------------------------------------------
(* C22: the life of the local prefix                                       *)

\* The number of modules emit_module has been called for
Calls == IF pc = "raised" THEN idx ELSE idx - 1

\* The prefix a module declares for itself, or <<>>
DeclaredPrefix(module) ==
    IF has_one(module, "prefix") THEN <<search_one(module, "prefix").arg>> ELSE <<>>

\* The prefix declared by the last of the first n modules that declares one
RECURSIVE LastDeclared(_)
LastDeclared(n) ==
    IF n = 0 THEN <<>>
    ELSE IF DeclaredPrefix(modules[n]) # <<>> THEN DeclaredPrefix(modules[n])
    ELSE LastDeclared(n - 1)

\* The value of the first line with the key that follows the name line of
\* the definition, or <<>>
FirstAfter(name, key) ==
    LET def == TypeDefinition(name)
        at == {i \in 1..Len(def) : def[i].k = key}
    IN IF at = {} THEN <<>> ELSE def[Min(at)].v

\* What a read of the local prefix for a module that sees the prefix 'seen'
\* must produce: the typedefs over m:bar and n:bar, and the leaf copied from
\* n:Gn
ReadsSee(module, seen) ==
    /\ FirstAfter(<<module.arg[1], "-m">>, "derived_from:")
          = IF seen = <<"m">> THEN <<"bar">> ELSE <<"m", ":", "bar">>
    /\ FirstAfter(<<module.arg[1], "-n">>, "derived_from:")
          = IF seen = <<"n">> THEN <<"bar">> ELSE <<"n", ":", "bar">>
    /\ FirstAfter(<<module.arg[1], "-c">>, "type:")
          = IF seen = <<"n">> THEN <<"foo">> ELSE <<"n", ":", "foo">>

\* C22 as stated: in one run the local prefix is assigned once and never
\* assigned again.
C22_AssignedOnce == [][local_prefix # <<>> => local_prefix' = local_prefix]_vars

\* C22: the local prefix is assigned once for each module that declares a
\* prefix, by emit_prefix during the metadata of that module, so that the
\* context holds the prefix of the last module translated so far that
\* declares one; the reads made for a module that declares a prefix happen
\* after its assignment and see that prefix.
C22_PrefixLifecycle ==
    /\ local_prefix = LastDeclared(Calls)
    /\ \A n \in 1..Calls :
          DeclaredPrefix(modules[n]) # <<>> => ReadsSee(modules[n], DeclaredPrefix(modules[n]))

\* A second module with another prefix has been translated
C22_Witness ==
    /\ pc = "done"
    /\ Len(modules) = 2
    /\ DeclaredPrefix(modules[1]) = <<"m">>
    /\ DeclaredPrefix(modules[2]) = <<"n">>
    /\ local_prefix = <<"n">>

-----------------------------------------------------------------------------
(* C29: no stale local prefix across modules                               *)

\* C29: for every module of the run, the reads of the local prefix made
\* while translating it compare against the prefix the module declares
\* itself, and see no prefix when it declares none; the prefix stored for an
\* earlier module is never used.
C29_NoStalePrefix ==
    \A n \in 1..Calls : ReadsSee(modules[n], DeclaredPrefix(modules[n]))

-----------------------------------------------------------------------------
(* Modules with several top-level statements                               *)

MaxTop == 2

GB == Stmt("grouping", <<"GB">>, <<Leaf("gb", <<"string">>, <<>>)>>)

\* A grouping whose container refers to a grouping defined after it
GA == Stmt("grouping", <<"GA">>, <<Stmt("container", <<"fx">>, <<Uses(<<"GB">>, <<GB>>)>>)>>)

GI == Stmt("grouping", <<"GI">>, <<Leaf("gi", <<"string">>, <<>>)>>)

\* A grouping that has properties only through its second uses
GH == Stmt("grouping", <<"GH">>, <<Uses(<<"G1">>, <<G1>>), Uses(<<"GI">>, <<GI>>)>>)

TreeMenu ==
    << GA,
       GB,
       Stmt("container", <<"X">>,
            <<Stmt("container", <<"D">>, <<Leaf("d1", <<"string">>, <<>>)>>)>>),
       Stmt("container", <<"Y">>,
            <<Stmt("container", <<"D">>, <<Leaf("d2", <<"string">>, <<>>)>>)>>),
       Target,
       RefStmt("augment", <<"/", "m", ":", "T">>, <<Leaf("e", <<"string">>, <<>>)>>, <<Target>>),
       RefStmt("augment", <<"/", "p", ":", "T">>, <<Leaf("f", <<"string">>, <<>>)>>, <<Target>>),
       Stmt("container", <<"Z">>,
            <<Stmt("typedef", <<"zt">>, <<Type(<<"string">>)>>),
              Leaf("z", <<"zt">>, <<>>),
              Stmt("list", <<"zl">>, <<Stmt("key", <<"k">>, <<>>), Leaf("k", <<"string">>, <<>>)>>),
              Stmt("choice", <<"zc">>,
                   <<Stmt("case", <<"K">>,
                          <<Stmt("container", <<"zk">>, <<Leaf("n", <<"string">>, <<>>)>>)>>)>>)>>),
       Stmt("container", <<"H">>, <<Uses(<<"G1">>, <<G1>>), Uses(<<"GH">>, <<GH>>)>>),
       Stmt("list", <<"Lq">>,
            <<Stmt("key", <<"a">>, <<>>),
              Leaf("a", <<"string">>, <<>>),
              Stmt("container", <<"lc">>, <<Leaf("c", <<"string">>, <<>>)>>)>>),
       Stmt("container", <<"Wc">>,
            <<RefStmt("uses", <<"G1">>,
                      <<RefStmt("augment", <<"g1a">>, <<Leaf("w", <<"string">>, <<>>)>>, <<>>)>>,
                      <<G1>>),
              Leaf("a", <<"string">>, <<>>)>>) >>

TreeModule(body) ==
    Stmt("module", <<"m">>,
         <<Stmt("namespace", <<"urn", ":", "m">>, <<>>), Stmt("prefix", <<"m">>, <<>>)>> \o body)

TreeModules ==
    {TreeModule(Pick(TreeMenu, chosen, 1)) :
        chosen \in {c \in SUBSET (1..Len(TreeMenu)) : Cardinality(c) <= MaxTop}}

InitTrees ==
    /\ cfg_file = "ok"
    /\ modules \in {<<module>> : module \in TreeModules}
    /\ pc = "setup"
    /\ idx = 1
    /\ type_map = <<>>
    /\ local_prefix = <<>>
    /\ fd = <<>>
    /\ stmt = <<>>

SpecTrees == InitTrees /\ [][Next]_vars

-----------------------------------------------------------------------------
(* C23: children before self                                               *)

\* The lines at which a type definition under the name starts
NameLines(name) ==
    {i \in 1..Len(Document) :
        Document[i].k = "name:" /\ Document[i].ind = 1 /\ Document[i].v = name}

\* The lines of the type definition that starts at line i
DefinitionAt(i) ==
    LET ends == {j \in i..Len(Document) : Document[j].k = ""}
    IN SubSeq(Document, i, IF ends = {} THEN Len(Document) ELSE Min(ends) - 1)

\* The name of the type definition of a nested statement: an augment under
\* a uses is written by emit_data_type, under its own argument
NestedName(c) == IF c.keyword = "augment" /\ c.ref = <<>> THEN c.arg ELSE DefinitionName(c)

\* The statements directly under s for which a type definition is due
OwnDefinitions(s) ==
    {c \in Children(s) :
        \/ c.keyword \in {"typedef", "grouping"}
        \/ c.keyword \in {"container", "list"} /\ ~Elided(c)}
    \cup UNION {ChildrenOfKind(u, "augment") : u \in ChildrenOfKind(s, "uses")}

\* The same, with the definitions inside the cases of the choices of s
NestedDefinitions(s) ==
    OwnDefinitions(s)
    \cup UNION {OwnDefinitions(k) : k \in UNION {ChildrenOfKind(c, "case") : c \in ChildrenOfKind(s, "choice")}}

\* The statements emit_data_type or emit_augmented_type writes a type for
DataTypeStmts == {s \in StructuralStmts : s.keyword # "typedef"}

\* The names in the 'type:' and 'entry_schema:' lines of a definition
TypeNamesUsed(def) ==
    {def[i].v : i \in {j \in 1..Len(def) : def[j].k \in {"type:", "entry_schema:"}}}

\* The definition of s starts at line i, after the definitions of the
\* statements nested in s and of the listed names that its lines use
ChildrenBefore(s, i, names) ==
    /\ \A c \in NestedDefinitions(s) : \E j \in NameLines(NestedName(c)) : j < i
    /\ \A name \in TypeNamesUsed(DefinitionAt(i)) \cap names :
          \E j \in NameLines(name) : j < i

\* The names of the type definitions of the statements below s
NamesBelow(s) == {DefinitionName(c) : c \in (Descendants(s) \ {s}) \cap StructuralStmts}

\* C23 as stated: every type name of the module used in a 'type:' or
\* 'entry_schema:' line of a definition is defined before that definition.
C23_ChildrenBeforeSelf_AsStated ==
    Translated =>
        \A s \in DataTypeStmts :
            NameLines(DefinitionName(s)) # {} =>
                \E i \in NameLines(DefinitionName(s)) : ChildrenBefore(s, i, NamesBelow(TheModule))

\* C23: for every type definition written for a statement S, the
\* definitions of the typedefs, groupings, non-elided containers and lists,
\* augments under uses and definitions inside cases of choices nested in S
\* come before the name line of S, so every type name of a statement below S
\* that a 'type:' or 'entry_schema:' line of S uses is defined earlier.
C23_ChildrenBeforeSelf ==
    Translated =>
        \A s \in DataTypeStmts :
            NameLines(DefinitionName(s)) # {} =>
                \E i \in NameLines(DefinitionName(s)) : ChildrenBefore(s, i, NamesBelow(s))

\* A container with a nested typedef, list and container under a case has
\* been written
C23_Witness ==
    /\ Translated
    /\ \E s \in DataTypeStmts :
          /\ s.arg = <<"Z">>
          /\ Cardinality(NestedDefinitions(s)) = 3
          /\ {<<"zt">>, <<"zl">>, <<"zk">>} \subseteq TypeNamesUsed(DefinitionAt(Min(NameLines(s.arg))))

-----------------------------------------------------------------------------
(* The text formatter on its own                                           *)

MaxWords == 3

\* A word of 40 characters: two of them do not fit on one line
LongWord == "aaaaaaaaaabbbbbbbbbbccccccccccdddddddddd"

TextTokens == {"ab", LongWord, ":", "'", "\n"}

Texts == SeqsUpTo(TextTokens, MaxWords)

InitText ==
    /\ stmt \in {<<Stmt("description", text, <<>>)>> : text \in Texts}
    /\ pc = "translate"
    /\ fd = <<>>
    /\ cfg_file = "ok"
    /\ modules = <<>>
    /\ idx = 1
    /\ type_map = SampleTypeMap
    /\ local_prefix = <<>>

EmitDescription ==
    /\ pc = "translate"
    /\ stmt[1].keyword = "description"
    /\ fd' = emit_description(stmt[1], 0)
    /\ pc' = "translated"
    /\ UNCHANGED <<cfg_file, modules, idx, type_map, local_prefix, stmt>>

SpecText == InitText /\ [][EmitDescription]_vars

-----------------------------------------------------------------------------
(* C24: block versus inline text                                           *)

TextTranslated == pc = "translated" /\ stmt[1].keyword = "description"

TheText == stmt[1].arg

\* The description is written in folded block style: '>-' after the key,
\* then the lines of the text, indented
Folded ==
    /\ fd[1].k = "description: >-"
    /\ Len(fd) > 1
    /\ \A i \in 2..Len(fd) : fd[i].k = "text" /\ fd[i].ind = fd[1].ind + 1

\* The description is written on the line of its key
Inline == Len(fd) = 1 /\ fd[1].k = "description:"

HasSpecial(text) == \E i \in 1..Len(text) : text[i] \in {"\n", ":", "'"}

\* A newline stands before further text
HasLineBreak(text) == \E i \in 1..(Len(text) - 1) : text[i] = "\n"

\* The words of the text, one space apart, do not fit in the wrap width
TooLong(text) == LineLen(SelectSeq(text, LAMBDA w : w # "\n")) > WrapWidth

\* C24 as stated: block style exactly when the text contains a newline, a
\* colon or a single quote; every other text is written inline.
C24_BlockVsInline_AsStated ==
    TextTranslated => (Folded <=> HasSpecial(TheText)) /\ (Inline <=> ~HasSpecial(TheText))

\* C24: emit_description writes folded block style exactly when the text
\* has a newline before further text, or is too long for one line of the
\* wrap width, or contains a colon or a single quote; every other text is
\* written inline.
C24_BlockVsInline ==
    TextTranslated =>
        LET block == HasLineBreak(TheText) \/ TooLong(TheText)
                        \/ Contains(TheText, ":") \/ Contains(TheText, "'")
        IN (Folded <=> block) /\ (Inline <=> ~block)

\* A long text without newline, colon or quote has been written in block
\* style
C24_Witness ==
    /\ TextTranslated
    /\ ~HasSpecial(TheText)
    /\ TooLong(TheText)
    /\ Folded
    /\ Len(fd) = 3

-----------------------------------------------------------------------------
(* C25: unique type names                                                  *)

\* The lines at which the type definitions of data_types start
AllNameLines == {i \in 1..Len(Document) : Document[i].k = "name:" /\ Document[i].ind = 1}

\* No two sibling statements of the tree have the same keyword and argument
RECURSIVE UniqueSiblings(_)
UniqueSiblings(s) ==
    /\ \A i, j \in 1..Len(s.substmts) :
          i # j /\ s.substmts[i].keyword \notin {"uses", "augment"}
             => s.substmts[i].arg # s.substmts[j].arg
    /\ \A c \in Children(s) : UniqueSiblings(c)

\* C25: within data_types of one module no two type definitions have the
\* same name, for every module whose sibling statements have unique names.
C25_UniqueTypeNames ==
    Translated /\ UniqueSiblings(TheModule) =>
        \A i, j \in AllNameLines : i # j => Document[i].v # Document[j].v

-----------------------------------------------------------------------------
(* C26: no self-derivation                                                 *)

\* The names in the 'derived_from:' lines of the type defined at line i
DerivedFrom(i) ==
    LET def == DefinitionAt(i)
    IN {def[n].v : n \in {m \in 1..Len(def) : def[m].k = "derived_from:" /\ def[m].ind = 2}}

\* C26: no type definition is derived from a type of its own name.
C26_NoSelfDerivation ==
    Translated => \A i \in AllNameLines : Document[i].v \notin DerivedFrom(i)

-----------------------------------------------------------------------------
(* C27: at most one qualifier                                              *)

\* The number of ':' separators of a name
Separators(name) == Cardinality({i \in 1..Len(name) : name[i] = ":"})

\* C27: every name written in a 'type:', 'entry_schema:' or 'derived_from:'
\* line has at most one ':' separator.
C27_AtMostOneQualifier ==
    \A i \in 1..Len(Document) :
        Document[i].k \in {"type:", "entry_schema:", "derived_from:"}
            => Separators(Document[i].v) <= 1

-----------------------------------------------------------------------------
(* C28: has_properties agrees with what is emitted                         *)

\* A property definition follows line i of the definition before any line
\* with one of the keys
PropertyBeneath(def, i, stops) ==
    \E j \in (i + 1)..Len(def) :
        /\ def[j].k = "name:"
        /\ def[j].ind = def[1].ind + 2
        /\ \A n \in (i + 1)..(j - 1) : def[n].k \notin stops

\* Every line of the definition with the key has a property definition
\* beneath it
AllFilled(def, key, stops) ==
    \A i \in 1..Len(def) : def[i].k = key => PropertyBeneath(def, i, stops)

\* The statements emit_data_type writes a type for
PlainDataTypeStmts == {s \in DataTypeStmts : s.keyword # "augment"}

\* C28: whenever emit_data_type writes 'properties:' because
\* has_properties(stmt), or emit_use writes '# properties from' because
\* has_properties(grouping), at least one property definition is written
\* beneath it.
C28_HasPropertiesAgrees ==
    Translated =>
        \A s \in PlainDataTypeStmts :
            has_properties(s) /\ NameLines(s.arg) # {} =>
                \E i \in NameLines(s.arg) :
                    /\ AllFilled(DefinitionAt(i), "properties:", {"# attributes:"})
                    /\ AllFilled(DefinitionAt(i), "# properties from",
                                 {"# properties from", "# attributes:", "# attributes from"})

-----------------------------------------------------------------------------
(* C30: flat disjunction for a length of several clauses                   *)

\* Line i is one of the two members of the 'and' entry that opens just
\* before it
MemberOfAnd(i) ==
    \/ i > 1 /\ fd[i - 1].k = "- and:"
    \/ /\ i > 2
       /\ fd[i - 2].k = "- and:"
       /\ fd[i - 1].k = "- min_length:"
       /\ fd[i].k = "- max_length:"

\* C30: for a length argument of two or more clauses, the constraint of
\* every clause, its 'and' entry or its single min_length / max_length
\* entry, is a direct member of the one 'or' list: it is written one level
\* below the 'or' key, whatever clauses come before it.
C30_FlatDisjunction ==
    (ConstraintTranslated /\ stmt[1].keyword = "length"
        /\ Len(ClausesOf(stmt[1].arg, <<>>)) > 1 /\ MarkedDisjunction)
    => \A i \in 3..Len(fd) :
           fd[i].ind = IF fd[i].k # "- and:" /\ MemberOfAnd(i) THEN fd[2].ind + 2
                       ELSE fd[2].ind + 1

====
